---------------------------- MODULE Spec2Model ----------------------------
(***************************************************************************)
(* A model of the chunking engine of code-guardian: the recursive Svelte   *)
(* template splitter, the TypeScript construct extractor and batcher, the  *)
(* generic Parser run (chunkCodebase) and the pattern dispatcher, the two  *)
(* extractors side by side on one file, the knowledge splitter on one      *)
(* document, and a component file parsed twice.                            *)
(*                                                                         *)
(* Text is modelled as the sequence of its lines (what split('\n') gives   *)
(* and join('\n') undoes); a line is a record [id, len]: id tells lines of *)
(* different content apart (0 is the empty line), len is its length in     *)
(* characters.  A template's text is addressed by character offsets.       *)
(***************************************************************************)
EXTENDS Integers, Sequences, FiniteSets, TLC

VARIABLES
    \* ---- template splitter (SvelteKitParser.splitLargeTemplate)
    svelteAst,        \* the parsed template: [html, nodes], nodes in document order
    templateContent,  \* length of the component file's text
    chunks,           \* what splitLargeTemplate returned
    warnings,         \* the console.warn calls made: the slices warned about
    tpc,              \* "start" | "done"
    \* ---- construct batcher (SvelteKitParser.chunkTypeScriptFile)
    content,          \* the file's text (sequence of lines)
    ast,              \* the grammar's answer: [ok, body]
    constructs,       \* what TypeScriptASTParser.parseFile returned
    idx,              \* constructs consumed by the for loop so far
    buffer,           \* pending construct contents
    bufferSize,       \* 4 * (sum of the pending constructs' sizes)
    results,          \* the emitted chunk contents
    emitted,          \* history: for each emitted chunk, the indices of its constructs
    bpc,              \* "parse" | "loop" | "done" | "off"
    \* ---- pattern registry and dispatcher (Parser.register / chunkCodebase)
    registrations,    \* the registered pattern sets, in registration order
    cursor,           \* [reg, pat]: the pattern the run is at
    processedFiles,   \* the files already claimed
    parsed,           \* the parseFile calls made: [file, reg, pat, semantic]
    dpc,              \* "setup" | "run" | "done" | "off"
    \* ---- the generic Parser's run (Parser.chunkCodebase, lib/parser.ts)
    codebase,         \* the scanned files, in scan order
    knowledge,        \* the knowledge file svelte5.txt: [exists, lines]
    fileIdx,          \* files processed so far
    jsonSchema,       \* the chunks added so far
    rpc,              \* "scan" | "knowledge" | "save" | "done" | "aborted" | "off"
    \* ---- the two construct extractors on one file
    xlines,           \* the file's text (sequence of lines)
    xbody,            \* ast.body: the top-level statements
    xextracted,       \* per statement, what TypeScriptASTParser.extractFromNode returned
    xchunks,          \* per statement, the chunks Parser.extractFromAST added
    xpc,              \* "parse" | "done" | "off"
    \* ---- the knowledge splitter on one document (Parser.parseLlmsTxt)
    kdoc,             \* the document's lines
    kchunks,          \* the chunks parseLlmsTxt added
    kpc,              \* "parse" | "done" | "off"
    \* ---- one component file parsed twice (SvelteKitParser.parseSvelteFile)
    component,        \* the script of the component: [present, lines, ast]
    parses,           \* the results of the parseSvelteFile calls made so far
    ppc,              \* "parse" | "off"
    \* ---- the vector store manager (ChromaManager)
    collection,       \* this.collection: "null" or the name of the collection
    collectionExists, \* whether the vector store holds the collection
    input,            \* storeChunks: the chunks with their contents, [id, len]
    si,               \* storeChunks: chunks consumed by the for loop
    currentBatch,     \* storeChunks: the pending batch
    tokenEstimate,    \* storeChunks: estimated tokens of the pending batch
    calls,            \* history: the processBatch calls, [batch, upsert, existed]
    spc,              \* "new" | "ready" | "cleared" | "loop" | "done" | "failed" | "off"
    \* ---- POST /webhook
    hookRequest,      \* [event, action, comment]: comment is a sequence of words
    invocations,      \* the commands processCommand was called with
    hookResponse,     \* 0 (none yet) or the status answered
    hpc,              \* "request" | "done" | "off"
    \* ---- the githubAuth middleware
    authEnv,          \* [secret, isDev]
    authRequest,      \* [path, signature, secretHeader, body]
    authResponse,     \* 0 (none), 401, 500, or 200 when next() was called
    handlerRan,       \* whether next() passed the request on
    authpc,           \* "request" | "done" | "off"
    \* ---- AssistantService.processCommand
    webhookData,      \* [isPullRequest]
    llmResponse,      \* the structured response of the reviewer
    githubCalls,      \* history: the GitHub calls made, [kind, ok]
    asstpc,           \* "ack" | "context" | "generate" | "handle" | "failed" | "done" | "off"
    \* ---- SvelteKitParser.splitBySize
    sizeLines,        \* text.split('\n'): the lines, [id, len]
    sizeChunks,       \* chunks: each the lines it joins
    sizeCurrent,      \* current
    currentSize,      \* currentSize
    sizeIdx,          \* lines consumed by the for loop
    szpc              \* "loop" | "done" | "off"

splitVars == <<svelteAst, templateContent, chunks, warnings, tpc>>
batchVars == <<content, ast, constructs, idx, buffer, bufferSize, results, emitted, bpc>>
dispVars == <<registrations, cursor, processedFiles, parsed, dpc>>
runVars == <<codebase, knowledge, fileIdx, jsonSchema, rpc>>
extVars == <<xlines, xbody, xextracted, xchunks, xpc>>
knowVars == <<kdoc, kchunks, kpc>>
twiceVars == <<component, parses, ppc>>
storeVars == <<collection, collectionExists, input, si, currentBatch, tokenEstimate, calls, spc>>
hookVars == <<hookRequest, invocations, hookResponse, hpc>>
authVars == <<authEnv, authRequest, authResponse, handlerRan, authpc>>
asstVars == <<webhookData, llmResponse, githubCalls, asstpc>>
sizeVars == <<sizeLines, sizeChunks, sizeCurrent, currentSize, sizeIdx, szpc>>
serviceVars == <<storeVars, hookVars, authVars, asstVars, sizeVars>>
otherVars == <<extVars, knowVars, twiceVars, serviceVars>>
engineVars == <<splitVars, batchVars, dispVars, runVars, extVars, knowVars, twiceVars>>
vars == <<splitVars, batchVars, dispVars, runVars, otherVars>>

\* Each specification below runs one part of the engine; the other parts rest.
SplitOff ==
    /\ svelteAst = [html |-> [children |-> <<>>], nodes |-> <<>>]
    /\ templateContent = 0 /\ chunks = <<>> /\ warnings = <<>> /\ tpc = "off"

BatchOff ==
    /\ content = <<>> /\ ast = [ok |-> TRUE, body |-> <<>>] /\ constructs = <<>>
    /\ idx = 0 /\ buffer = <<>> /\ bufferSize = 0 /\ results = <<>>
    /\ emitted = <<>> /\ bpc = "off"

DispOff ==
    /\ registrations = <<>> /\ cursor = [reg |-> 0, pat |-> 0]
    /\ processedFiles = {} /\ parsed = {} /\ dpc = "off"

RunOff ==
    /\ codebase = <<>> /\ knowledge = [exists |-> FALSE, lines |-> <<>>]
    /\ fileIdx = 0 /\ jsonSchema = <<>> /\ rpc = "off"

ExtOff ==
    /\ xlines = <<>> /\ xbody = <<>> /\ xextracted = <<>> /\ xchunks = <<>> /\ xpc = "off"

KnowOff == kdoc = <<>> /\ kchunks = <<>> /\ kpc = "off"

TwiceOff ==
    /\ component = [present |-> FALSE, lines |-> <<>>, ast |-> [ok |-> TRUE, body |-> <<>>]]
    /\ parses = <<>> /\ ppc = "off"

StoreOff ==
    /\ collection = "null" /\ collectionExists = FALSE /\ input = <<>> /\ si = 0
    /\ currentBatch = <<>> /\ tokenEstimate = 0 /\ calls = <<>> /\ spc = "off"

HookOff ==
    /\ hookRequest = [event |-> "", action |-> "", comment |-> <<>>]
    /\ invocations = <<>> /\ hookResponse = 0 /\ hpc = "off"

AuthOff ==
    /\ authEnv = [secret |-> "", isDev |-> FALSE]
    /\ authRequest = [path |-> "/", signature |-> [text |-> <<>>, chars |-> 0, bytes |-> 0], secretHeader |-> "", body |-> ""]
    /\ authResponse = 0 /\ handlerRan = FALSE /\ authpc = "off"

AsstOff ==
    /\ webhookData = [isPullRequest |-> FALSE]
    /\ llmResponse = [type |-> "", action |-> ""]
    /\ githubCalls = <<>> /\ asstpc = "off"

SizeOff ==
    /\ sizeLines = <<>> /\ sizeChunks = <<>> /\ sizeCurrent = <<>>
    /\ currentSize = 0 /\ sizeIdx = 0 /\ szpc = "off"

ServiceOff == StoreOff /\ HookOff /\ AuthOff /\ AsstOff /\ SizeOff

EngineOff == SplitOff /\ BatchOff /\ DispOff /\ RunOff /\ ExtOff /\ KnowOff /\ TwiceOff

OtherOff == ExtOff /\ KnowOff /\ TwiceOff /\ ServiceOff

\* ------------------------------------------------------------------ helpers

RECURSIVE SumSeq(_)
SumSeq(s) == IF s = <<>> THEN 0 ELSE Head(s) + SumSeq(Tail(s))

RECURSIVE Flatten(_)
Flatten(ss) == IF ss = <<>> THEN <<>> ELSE Head(ss) \o Flatten(Tail(ss))

Range(s) == {s[i] : i \in DOMAIN s}

\* ------------------------------------------------------- template splitter

\* Bounds of the template trees drawn in InitSplit.
MaxNodes == 3
LeadLen == 10

\* Lengths (characters) a node's own text may have: below the text threshold,
\* at the threshold, half the budget, over the budget.
OwnLens == {100, 2000, 4100}
LeafTypes == {"Element", "Text"}
InnerTypes == {"Element", "IfBlock"}

\* splitLargeTemplate's default maxTokens.
DefaultMaxTokens == 1000
\* processASTNode: a Text node of fewer estimated tokens is dropped.
MinTextTokens == 50

\* Document order: the nodes strictly between a node and its parent are the
\* parent's descendants.
IsPreorder(n, parent) ==
    \A i \in 1..n : \A j \in (parent[i] + 1)..(i - 1) : parent[j] >= parent[i]

ChildIds(n, parent, p) == {j \in 1..n : parent[j] = p}

RECURSIVE SortedSeq(_)
SortedSeq(S) ==
    IF S = {} THEN <<>>
    ELSE LET m == CHOOSE x \in S : \A y \in S : x <= y
         IN <<m>> \o SortedSeq(S \ {m})

RECURSIVE SubLen(_, _, _, _)
SubLen(n, parent, own, i) ==
    LET kids == SortedSeq(ChildIds(n, parent, i))
    IN own[i] + SumSeq([k \in DOMAIN kids |-> SubLen(n, parent, own, kids[k])])

\* Offset of node i: the parent's own text comes first, then its children.
RECURSIVE StartOf(_, _, _, _, _)
StartOf(n, parent, own, lead, i) ==
    LET p == parent[i]
        before == {j \in ChildIds(n, parent, p) : j < i}
        base == IF p = 0 THEN lead ELSE StartOf(n, parent, own, lead, p) + own[p]
    IN base + SumSeq([k \in DOMAIN SortedSeq(before) |->
                         SubLen(n, parent, own, SortedSeq(before)[k])])

\* The AST the Svelte compiler hands over: each node carries type, start, end
\* and children (node ids, in document order).
MakeAst(n, parent, type, own, lead) ==
    [html |-> [children |-> SortedSeq(ChildIds(n, parent, 0))],
     nodes |-> [i \in 1..n |->
        [type |-> type[i],
         start |-> StartOf(n, parent, own, lead, i),
         end |-> StartOf(n, parent, own, lead, i) + SubLen(n, parent, own, i),
         children |-> SortedSeq(ChildIds(n, parent, i))]]]

\* content.length / 4 > limit, in exact arithmetic (the quotient is not rounded).
OverTokens(len, limit) == len > 4 * limit
UnderTokens(len, limit) == len < 4 * limit

\* sourceContent.slice(start, end): a range of the source.
Slice(start, end) == [start |-> start, end |-> end]
SliceLen(c) == c.end - c.start

NoResult == [type |-> "null"]

ChunkTypeOf(node) ==
    CASE node.type = "Element" -> "element"
      [] node.type = "Component" -> "component-usage"
      [] node.type \in {"IfBlock", "EachBlock", "AwaitBlock", "KeyBlock"} -> "block"
      [] node.type = "Text" -> "text-content"
      [] OTHER -> "unknown"

ProcessASTNodeDropsText(node) ==
    node.type = "Text" /\ UnderTokens(node.end - node.start, MinTextTokens)

\* processASTNode: null for a node without start or end (0 is falsy) and for a
\* short Text node; otherwise the node's slice, classified.
processASTNode(node) ==
    IF node.start = 0 \/ node.end = 0 THEN NoResult
    ELSE IF ProcessASTNodeDropsText(node) THEN NoResult
    ELSE [type |-> ChunkTypeOf(node),
          content |-> Slice(node.start, node.end),
          estimatedTokens4 |-> node.end - node.start]

\* Mutant: a split into two chunks is not taken either.
KeepChildChunksMutant(childChunks) == Len(childChunks) > 2

\* processASTNodeRecursive, line 203: if (childChunks.length > 1) return childChunks
KeepChildChunks(childChunks) == Len(childChunks) > 1

\* Mutant: after a split the parent's candidate is returned with the
\* children's chunks.
RECURSIVE processASTNodeRecursiveMutant(_, _, _)
processASTNodeRecursiveMutant(nodes, i, maxTokens) ==
    LET node == nodes[i]
        nodeResult == processASTNode(node)
    IN IF nodeResult = NoResult THEN <<>>
       ELSE IF ~OverTokens(nodeResult.estimatedTokens4, maxTokens) THEN <<nodeResult>>
       ELSE <<nodeResult>> \o
            Flatten([k \in DOMAIN node.children |->
                processASTNodeRecursiveMutant(nodes, node.children[k], maxTokens)])

RECURSIVE processASTNodeRecursive(_, _, _)
processASTNodeRecursive(nodes, i, maxTokens) ==
    LET node == nodes[i]
        nodeResult == processASTNode(node)
    IN IF nodeResult = NoResult THEN <<>>
       ELSE IF ~OverTokens(nodeResult.estimatedTokens4, maxTokens) THEN <<nodeResult>>
       ELSE LET childChunks ==
                    Flatten([k \in DOMAIN node.children |->
                        processASTNodeRecursive(nodes, node.children[k], maxTokens)])
            IN IF Len(node.children) > 0 /\ KeepChildChunks(childChunks)
               THEN childChunks
               ELSE <<nodeResult>>

\* processASTNodeRecursive, line 208: console.warn(`Large chunk: ...`) is
\* reached whenever the node's own candidate is returned over the budget.
\* The console.warn calls processASTNodeRecursive makes on node i, in order.
RECURSIVE LargeChunkWarnings(_, _, _)
LargeChunkWarnings(nodes, i, maxTokens) ==
    LET node == nodes[i]
        nodeResult == processASTNode(node)
    IN IF nodeResult = NoResult THEN <<>>
       ELSE IF ~OverTokens(nodeResult.estimatedTokens4, maxTokens) THEN <<>>
       ELSE LET childChunks ==
                    Flatten([k \in DOMAIN node.children |->
                        processASTNodeRecursive(nodes, node.children[k], maxTokens)])
                childWarnings ==
                    Flatten([k \in DOMAIN node.children |->
                        LargeChunkWarnings(nodes, node.children[k], maxTokens)])
            IN IF Len(node.children) > 0 /\ KeepChildChunks(childChunks)
               THEN childWarnings
               ELSE childWarnings \o <<nodeResult.content>>

WholeTemplate(len) ==
    [type |-> "template", content |-> Slice(0, len), estimatedTokens4 |-> len]

splitLargeTemplate(len, astv, maxTokens) ==
    LET out == Flatten([k \in DOMAIN astv.html.children |->
                   processASTNodeRecursive(astv.nodes, astv.html.children[k], maxTokens)])
    IN IF out # <<>> THEN out ELSE <<WholeTemplate(len)>>

\* ------------------------------------------- TypeScript construct extractor

BlankLine == [id |-> 0, len |-> 0]

\* text.length of a text given by its lines: the lines and the newlines between.
StrLen(text) ==
    IF text = <<>> THEN 0
    ELSE SumSeq([k \in DOMAIN text |-> text[k].len]) + (Len(text) - 1)

\* parts.join('\n\n'): the parts' lines with an empty line between two parts.
RECURSIVE JoinBlank(_)
JoinBlank(parts) ==
    IF parts = <<>> THEN <<BlankLine>>
    ELSE IF Len(parts) = 1 THEN parts[1]
    ELSE parts[1] \o <<BlankLine>> \o JoinBlank(Tail(parts))

\* Mutant: lines.slice(startLine - 1, endLine - 1), the node's last line is lost.
extractNodeContentShortMutant(node, lines) ==
    SubSeq(lines, node.startLine,
           (IF node.endLine <= Len(lines) THEN node.endLine ELSE Len(lines)) - 1)

\* Mutant: lines.slice(startLine, endLine), the node's first line is lost.
extractNodeContentMutant(node, lines) ==
    SubSeq(lines, node.startLine + 1, IF node.endLine <= Len(lines) THEN node.endLine ELSE Len(lines))

\* extractNodeContent: lines.slice(startLine - 1, endLine).join('\n')
extractNodeContent(node, lines) ==
    SubSeq(lines, node.startLine, IF node.endLine <= Len(lines) THEN node.endLine ELSE Len(lines))

NameOrAnonymous(name) == IF name = "" THEN "anonymous" ELSE name

NoMetadata == [x \in {} |-> TRUE]

IsFunctionInit(init) == init \in {"ArrowFunctionExpression", "FunctionExpression"}

Construct(type, name, node, lines, metadata) ==
    [type |-> type, name |-> name, content |-> extractNodeContent(node, lines),
     startLine |-> node.startLine, endLine |-> node.endLine, metadata |-> metadata]

\* Mutant: every declarator's construct is of type 'variable' and the arrow
\* flag is that of a function expression.
VariableConstructsMutant(node, lines) ==
    LET named == SelectSeq(node.declarations, LAMBDA d : d.name # "")
    IN [k \in DOMAIN named |->
          Construct("variable", named[k].name, node, lines,
                    [isArrowFunction |-> named[k].init = "FunctionExpression",
                     isConst |-> node.kind = "const"])]

\* extractFromNode, case 'VariableDeclaration': one construct per declarator
\* that has a name, each holding the whole declaration's lines.
VariableConstructs(node, lines) ==
    LET named == SelectSeq(node.declarations, LAMBDA d : d.name # "")
    IN [k \in DOMAIN named |->
          Construct(IF IsFunctionInit(named[k].init) THEN "function" ELSE "variable",
                    named[k].name, node, lines,
                    [isArrowFunction |-> named[k].init = "ArrowFunctionExpression",
                     isConst |-> node.kind = "const"])]

MarkExported(c) ==
    [c EXCEPT !.metadata = [f \in DOMAIN c.metadata \cup {"isExported"} |->
                               IF f = "isExported" THEN TRUE ELSE c.metadata[f]]]

RECURSIVE extractFromNode(_, _)
extractFromNode(node, lines) ==
    CASE node.type = "FunctionDeclaration" ->
            <<Construct("function", NameOrAnonymous(node.name), node, lines,
                        [isAsync |-> node.async, isGenerator |-> node.generator])>>
      [] node.type \in {"TSInterfaceDeclaration", "TSTypeAliasDeclaration"} ->
            <<Construct("interface", NameOrAnonymous(node.name), node, lines, NoMetadata)>>
      [] node.type = "ClassDeclaration" ->
            <<Construct("class", NameOrAnonymous(node.name), node, lines,
                        [isAbstract |-> node.abstract, superClass |-> node.superClass])>>
      [] node.type = "VariableDeclaration" -> VariableConstructs(node, lines)
      [] node.type = "ExportNamedDeclaration" ->
            IF node.declaration = <<>> THEN <<>>
            ELSE LET exported == extractFromNode(node.declaration[1], lines)
                 IN [k \in DOMAIN exported |-> MarkExported(exported[k])]
      [] OTHER -> <<>>

\* Mutant: on a grammar error the whole file comes back as one construct.
ParseFailureConstructsMutant(text) ==
    <<[type |-> "export", name |-> "anonymous", content |-> text, startLine |-> 1,
       endLine |-> Len(text), metadata |-> [opaque |-> TRUE]]>>

\* TypeScriptASTParser.parseFile, the catch block: constructs: []
ParseFailureConstructs(text) == <<>>

\* TypeScriptASTParser.parseFile: the constructs of the top-level statements
\* in order, imports skipped; nothing when the grammar rejects the file.
parseFile(text, astv) ==
    IF ~astv.ok
    THEN [constructs |-> ParseFailureConstructs(text), threw |-> FALSE]
    ELSE [constructs |->
             Flatten([k \in DOMAIN astv.body |->
                 IF astv.body[k].type = "ImportDeclaration" THEN <<>>
                 ELSE extractFromNode(astv.body[k], text)]),
          threw |-> FALSE]

\* ---- AST nodes as the grammar builds them
AstNode(type, name, s, e) ==
    [type |-> type, name |-> name, startLine |-> s, endLine |-> e,
     async |-> FALSE, generator |-> FALSE, abstract |-> FALSE, superClass |-> "",
     kind |-> "", declarations |-> <<>>, declaration |-> <<>>, members |-> <<>>]

VarDecl(kind, declarations, s, e) ==
    [AstNode("VariableDeclaration", "", s, e) EXCEPT
        !.kind = kind, !.declarations = declarations]

ClassDecl(name, members, s, e) ==
    [AstNode("ClassDeclaration", name, s, e) EXCEPT !.members = members]

ExportNamed(inner, s, e) ==
    [AstNode("ExportNamedDeclaration", "", s, e) EXCEPT !.declaration = inner]

\* ------------------------------------------------------ construct batcher

\* Bounds of the files drawn in InitBatch.
MaxStmts == 3
\* Statement lengths (characters): a sixth of the budget, half of it, over it.
StmtLens == {1000, 3000, 6004}
StmtKinds == {"function", "var2", "expr", "blank"}
NameSeq == <<"a", "b", "c", "d", "e", "f", "g", "h">>

\* chunkTypeScriptFile: the size limit of a chunk, in estimated tokens.
MaxBatchTokens == 1500

\* Lines a statement of the given kind takes: a declaration takes two (the
\* last one holds the closing brace), anything else one.
StmtLines(st) == IF st.kind \in {"function", "var2"} THEN 2 ELSE 1

RECURSIVE FileLines(_, _)
FileLines(stmts, at) ==
    IF stmts = <<>> THEN <<>>
    ELSE LET st == Head(stmts) IN
         (CASE st.kind = "blank" -> <<BlankLine>>
            [] st.kind = "expr" -> <<[id |-> at, len |-> st.len]>>
            [] OTHER -> <<[id |-> at, len |-> st.len - 2], [id |-> at + 1, len |-> 1]>>)
         \o FileLines(Tail(stmts), at + StmtLines(st))

RECURSIVE FileBody(_, _)
FileBody(stmts, at) ==
    IF stmts = <<>> THEN <<>>
    ELSE LET st == Head(stmts) IN
         (CASE st.kind = "blank" -> <<>>
            [] st.kind = "expr" -> <<AstNode("ExpressionStatement", "", at, at)>>
            [] st.kind = "function" ->
                  <<AstNode("FunctionDeclaration", NameSeq[at], at, at + 1)>>
            [] OTHER ->
                  <<VarDecl("const",
                            <<[name |-> NameSeq[at], init |-> "ArrowFunctionExpression"],
                              [name |-> NameSeq[at + 1], init |-> "Literal"]>>,
                            at, at + 1)>>)
         \o FileBody(Tail(stmts), at + StmtLines(st))

InitBatch ==
    /\ \E n \in 1..MaxStmts :
       \E kind \in [1..n -> StmtKinds] :
       \E len \in [1..n -> StmtLens] :
       \E ok \in BOOLEAN :
          LET stmts == [k \in 1..n |-> [kind |-> kind[k], len |-> len[k]]] IN
          /\ \A k \in 1..n : kind[k] = "blank" => len[k] = 1000
          /\ ~ok => \A k \in 1..n : kind[k] = "expr"
          /\ content = FileLines(stmts, 1)
          /\ ast = [ok |-> ok, body |-> IF ok THEN FileBody(stmts, 1) ELSE <<>>]
    /\ constructs = <<>> /\ idx = 0 /\ buffer = <<>> /\ bufferSize = 0
    /\ results = <<>> /\ emitted = <<>> /\ bpc = "parse"
    /\ SplitOff /\ DispOff /\ RunOff /\ OtherOff

\* const { constructs } = await TypeScriptASTParser.parseFile(content)
ParseFile ==
    /\ bpc = "parse"
    /\ constructs' = parseFile(content, ast).constructs
    /\ bpc' = "loop"
    /\ UNCHANGED <<content, ast, idx, buffer, bufferSize, results, emitted, splitVars, dispVars, runVars, otherVars>>

\* 4 * size of the construct the loop is at.
NextSize == StrLen(constructs[idx + 1].content)

\* Mutant: the limit applies to the joined text, separators included.
WouldOverflowMutant(size4, pending4) ==
    pending4 + size4 + (IF pending4 > 0 THEN 2 ELSE 0) > 4 * MaxBatchTokens

\* bufferSize + size > 1500
WouldOverflow(size4, pending4) == pending4 + size4 > 4 * MaxBatchTokens

\* Mutant: an oversized construct joins the pending buffer.
IsOversizedMutant(size4) == FALSE

\* size > 1500
IsOversized(size4) == size4 > 4 * MaxBatchTokens

\* if (size > 1500): flush the pending buffer, then push the construct alone.
EmitOversized ==
    /\ bpc = "loop" /\ idx < Len(constructs)
    /\ IsOversized(NextSize)
    /\ results' = (IF buffer # <<>> THEN Append(results, JoinBlank(buffer)) ELSE results)
                    \o <<constructs[idx + 1].content>>
    /\ emitted' = (IF buffer # <<>>
                   THEN Append(emitted, [k \in 1..Len(buffer) |-> idx - Len(buffer) + k])
                   ELSE emitted) \o <<<<idx + 1>>>>
    /\ buffer' = (IF buffer # <<>> THEN <<>> ELSE buffer)
    /\ bufferSize' = (IF buffer # <<>> THEN 0 ELSE bufferSize)
    /\ idx' = idx + 1
    /\ UNCHANGED <<content, ast, constructs, bpc, splitVars, dispVars, runVars, otherVars>>

\* Mutant: the buffer is restarted without being pushed.
FlushAndRestartMutant ==
    /\ bpc = "loop" /\ idx < Len(constructs)
    /\ ~IsOversized(NextSize)
    /\ WouldOverflow(NextSize, bufferSize)
    /\ buffer' = <<constructs[idx + 1].content>>
    /\ bufferSize' = NextSize
    /\ idx' = idx + 1
    /\ UNCHANGED <<content, ast, constructs, results, emitted, bpc, splitVars, dispVars, runVars, otherVars>>

\* else if (bufferSize + size > 1500): push the buffer, restart it with the construct.
FlushAndRestart ==
    /\ bpc = "loop" /\ idx < Len(constructs)
    /\ ~IsOversized(NextSize)
    /\ WouldOverflow(NextSize, bufferSize)
    /\ results' = Append(results, JoinBlank(buffer))
    /\ emitted' = Append(emitted, [k \in 1..Len(buffer) |-> idx - Len(buffer) + k])
    /\ buffer' = <<constructs[idx + 1].content>>
    /\ bufferSize' = NextSize
    /\ idx' = idx + 1
    /\ UNCHANGED <<content, ast, constructs, bpc, splitVars, dispVars, runVars, otherVars>>

\* else: buffer.push(construct.content); bufferSize += size
AppendToBuffer ==
    /\ bpc = "loop" /\ idx < Len(constructs)
    /\ ~IsOversized(NextSize)
    /\ ~WouldOverflow(NextSize, bufferSize)
    /\ buffer' = Append(buffer, constructs[idx + 1].content)
    /\ bufferSize' = bufferSize + NextSize
    /\ idx' = idx + 1
    /\ UNCHANGED <<content, ast, constructs, results, emitted, bpc, splitVars, dispVars, runVars, otherVars>>

\* After the loop: if (buffer.length > 0) results.push(buffer.join('\n\n')); return
FinalFlush ==
    /\ bpc = "loop" /\ idx = Len(constructs)
    /\ results' = (IF buffer # <<>> THEN Append(results, JoinBlank(buffer)) ELSE results)
    /\ emitted' = (IF buffer # <<>>
                   THEN Append(emitted, [k \in 1..Len(buffer) |-> idx - Len(buffer) + k])
                   ELSE emitted)
    /\ bpc' = "done"
    /\ UNCHANGED <<content, ast, constructs, idx, buffer, bufferSize, splitVars, dispVars, runVars, otherVars>>

NextBatch ==
    \/ ParseFile
    \/ EmitOversized
    \/ FlushAndRestart
    \/ AppendToBuffer
    \/ FinalFlush

SpecBatch == InitBatch /\ [][NextBatch]_vars

\* A component's template: a tree of nodes in document order with its offsets.
DrawTemplate ==
    \E n \in 1..MaxNodes :
       \E parent \in [1..n -> 0..(n - 1)] :
       \E type \in [1..n -> LeafTypes \cup InnerTypes] :
       \E own \in [1..n -> OwnLens] :
       \E lead \in {0, LeadLen} :
          /\ \A i \in 1..n : parent[i] < i
          /\ IsPreorder(n, parent)
          /\ \A i \in 1..n : IF ChildIds(n, parent, i) = {}
                             THEN type[i] \in LeafTypes
                             ELSE type[i] \in InnerTypes
          /\ svelteAst = MakeAst(n, parent, type, own, lead)
          /\ templateContent = lead + SumSeq([k \in DOMAIN SortedSeq(ChildIds(n, parent, 0)) |->
                                   SubLen(n, parent, own, SortedSeq(ChildIds(n, parent, 0))[k])])

InitSplit ==
    /\ DrawTemplate
    /\ chunks = <<>> /\ warnings = <<>>
    /\ tpc = "start"
    /\ BatchOff /\ DispOff /\ RunOff /\ OtherOff

SplitLargeTemplate ==
    /\ tpc = "start"
    /\ chunks' = splitLargeTemplate(templateContent, svelteAst, DefaultMaxTokens)
    /\ warnings' = Flatten([k \in DOMAIN svelteAst.html.children |->
                       LargeChunkWarnings(svelteAst.nodes, svelteAst.html.children[k],
                                          DefaultMaxTokens)])
    /\ tpc' = "done"
    /\ UNCHANGED <<svelteAst, templateContent, batchVars, dispVars, runVars, otherVars>>

NextSplit == SplitLargeTemplate

SpecSplit == InitSplit /\ [][NextSplit]_vars

\* ------------------------------------------ pattern registry and dispatcher
\* The Parser that has register() is not among the sources (only its caller,
\* POST /update-codebase, and the PatternConfig type are); this part follows
\* the design text: sets in registration order, patterns by descending
\* priority, the first match that does not exclude the file claims it.

\* Bounds of the registries drawn by Register.
MaxRegistrations == 2
MaxPatterns == 2

\* The scanned files and the patterns a framework may register; matches is
\* what the pattern's glob finds in the scanned directory.
ScannedFiles == {"+page.server.ts", "+page.ts"}
PatternPool ==
    { [pattern |-> "**/*+page.server.{js,ts}", semantic |-> "page-endpoint", priority |-> 10,
       matches |-> {"+page.server.ts"}, exclude |-> {}],
      [pattern |-> "**/*+page*.{js,ts}", semantic |-> "util", priority |-> 9,
       matches |-> {"+page.server.ts", "+page.ts"}, exclude |-> {}],
      [pattern |-> "**/*.ts", semantic |-> "script", priority |-> 10,
       matches |-> {"+page.server.ts", "+page.ts"}, exclude |-> {"+page.server.ts"}] }

\* Positions of a pattern set, by descending priority; equal priorities keep
\* their order.
RECURSIVE ByPriority(_, _)
ByPriority(patterns, left) ==
    IF left = {} THEN <<>>
    ELSE LET k == CHOOSE a \in left : \A b \in left :
                      \/ patterns[a].priority > patterns[b].priority
                      \/ patterns[a].priority = patterns[b].priority /\ a <= b
         IN <<k>> \o ByPriority(patterns, left \ {k})

PatternAt(r, k) ==
    LET ps == registrations[r].patterns IN ps[ByPriority(ps, DOMAIN ps)[k]]

\* Mutant: a file is parsed again although it was claimed.
ClaimsFileMutant(pat, file, claimed) ==
    file \in pat.matches /\ file \notin pat.exclude

\* A pattern takes a file it matches and does not exclude, unless the file
\* was claimed before.
ClaimsFile(pat, file, claimed) ==
    file \in pat.matches /\ file \notin pat.exclude /\ file \notin claimed

\* parser.register(patterns, frameworkParser): appends a pattern set.
Register ==
    /\ dpc = "setup"
    /\ Len(registrations) < MaxRegistrations
    /\ \E n \in 1..MaxPatterns :
       \E ps \in [1..n -> PatternPool] :
          /\ \A a, b \in 1..n : a # b => ps[a] # ps[b]
          /\ registrations' = Append(registrations, [patterns |-> ps])
    /\ UNCHANGED <<cursor, processedFiles, parsed, dpc, splitVars, batchVars, runVars, otherVars>>

\* chunkCodebase starts: nothing is claimed, the first pattern is up.
StartRun ==
    /\ dpc = "setup"
    /\ dpc' = IF registrations = <<>> THEN "done" ELSE "run"
    /\ cursor' = [reg |-> 1, pat |-> 1]
    /\ processedFiles' = {}
    /\ parsed' = {}
    /\ UNCHANGED <<registrations, splitVars, batchVars, runVars, otherVars>>

\* One pattern of the run: every file it claims is parsed once and marked.
DispatchPattern ==
    /\ dpc = "run"
    /\ LET r == cursor.reg
           k == cursor.pat
           pat == PatternAt(r, k)
           taken == {f \in ScannedFiles : ClaimsFile(pat, f, processedFiles)}
       IN /\ parsed' = parsed \cup
                {[file |-> f, reg |-> r, pat |-> k, semantic |-> pat.semantic] : f \in taken}
          /\ processedFiles' = processedFiles \cup taken
          /\ IF k < Len(registrations[r].patterns)
             THEN cursor' = [reg |-> r, pat |-> k + 1] /\ dpc' = dpc
             ELSE IF r < Len(registrations)
                  THEN cursor' = [reg |-> r + 1, pat |-> 1] /\ dpc' = dpc
                  ELSE cursor' = cursor /\ dpc' = "done"
    /\ UNCHANGED <<registrations, splitVars, batchVars, runVars, otherVars>>

InitDispatch ==
    /\ registrations = <<>> /\ cursor = [reg |-> 0, pat |-> 0]
    /\ processedFiles = {} /\ parsed = {} /\ dpc = "setup"
    /\ SplitOff /\ BatchOff /\ RunOff /\ OtherOff

NextDispatch ==
    \/ Register
    \/ StartRun
    \/ DispatchPattern

SpecDispatch == InitDispatch /\ [][NextDispatch]_vars

\* ---------------------------------------------------- claims: dispatcher

\* The patterns (registration, position by priority) that match a file and
\* do not exclude it.
Takers(f) ==
    UNION {{[reg |-> r, pat |-> k] : k \in
                {k \in DOMAIN registrations[r].patterns :
                    /\ f \in PatternAt(r, k).matches
                    /\ f \notin PatternAt(r, k).exclude}} : r \in DOMAIN registrations}
Earlier(a, b) == a.reg < b.reg \/ (a.reg = b.reg /\ a.pat <= b.pat)
CallsFor(f) == {c \in parsed : c.file = f}

\* C8: a file is never parsed twice; when the run is over, a file that some
\* pattern takes was parsed exactly once, by the first such pattern in
\* registration order and then descending priority.
C8_FileClaimedOnce ==
    /\ \A f \in ScannedFiles : Cardinality(CallsFor(f)) <= 1
    /\ dpc = "done" =>
          \A f \in ScannedFiles :
              IF Takers(f) = {} THEN CallsFor(f) = {}
              ELSE \E c \in CallsFor(f) :
                      /\ [reg |-> c.reg, pat |-> c.pat] \in Takers(f)
                      /\ \A t \in Takers(f) : Earlier([reg |-> c.reg, pat |-> c.pat], t)

\* C8 witness: a file taken by patterns of two registered sets, parsed once.
C8_Witness ==
    /\ dpc = "done"
    /\ \E f \in ScannedFiles :
          /\ \E a, b \in Takers(f) : a.reg # b.reg
          /\ Cardinality(CallsFor(f)) = 1

\* ------------------------------------ the generic Parser (lib/parser.ts)

\* Bound of the codebases drawn in InitRun.
MaxRunFiles == 2

\* A chunk id is hash(key) of a key string; hash is a function, so equal
\* keys give equal ids.  The key is kept as the sequence of its parts.
HashKey(parts) == parts

BaseChunk(idParts, type, text, granularity) ==
    [id |-> HashKey(idParts), type |-> type, hash |-> text, granularity |-> granularity]

\* Parser.extractNodeContent: lines.slice(startLine - 1, endLine).join('\n')
parserExtractNodeContent(node, lines) ==
    SubSeq(lines, node.startLine, IF node.endLine <= Len(lines) THEN node.endLine ELSE Len(lines))

createFunctionChunk(node, filePath, lines) ==
    <<BaseChunk(<<filePath, NameOrAnonymous(node.name)>>, "function",
                parserExtractNodeContent(node, lines), "function")>>

createTypeChunk(node, filePath, lines) ==
    <<BaseChunk(<<filePath, NameOrAnonymous(node.name)>>, "type-definition",
                parserExtractNodeContent(node, lines), "function")>>

createMethodChunk(node, filePath, lines, className) ==
    <<BaseChunk(<<filePath, className, NameOrAnonymous(node.name)>>, "function",
                parserExtractNodeContent(node, lines), "function")>>

\* createClassChunk: the class, then one chunk per MethodDefinition member.
createClassChunk(node, filePath, lines) ==
    LET className == NameOrAnonymous(node.name)
        methods == SelectSeq(node.members, LAMBDA m : m.type = "MethodDefinition")
    IN <<BaseChunk(<<filePath, className>>, "class",
                   parserExtractNodeContent(node, lines), "function")>>
       \o Flatten([k \in DOMAIN methods |->
                      createMethodChunk(methods[k], filePath, lines, className)])

\* handleVariableDeclaration: a chunk per declarator whose initializer is a
\* function or arrow-function expression.
handleVariableDeclaration(node, filePath, lines) ==
    LET fns == SelectSeq(node.declarations, LAMBDA d : IsFunctionInit(d.init))
    IN [k \in DOMAIN fns |->
          BaseChunk(<<filePath, NameOrAnonymous(fns[k].name)>>, "function",
                    parserExtractNodeContent(node, lines), "function")]

RECURSIVE extractFromAST(_, _, _)
extractFromAST(body, filePath, lines) ==
    Flatten([k \in DOMAIN body |->
        LET node == body[k] IN
        CASE node.type = "FunctionDeclaration" -> createFunctionChunk(node, filePath, lines)
          [] node.type = "VariableDeclaration" -> handleVariableDeclaration(node, filePath, lines)
          [] node.type \in {"TSInterfaceDeclaration", "TSTypeAliasDeclaration"} ->
                createTypeChunk(node, filePath, lines)
          [] node.type = "ClassDeclaration" -> createClassChunk(node, filePath, lines)
          [] node.type = "ExportNamedDeclaration" ->
                IF node.declaration = <<>> THEN <<>>
                ELSE extractFromAST(node.declaration, filePath, lines)
          [] OTHER -> <<>>])

\* parseSimpleFile: one whole-file chunk; a read failure is caught and logged.
parseSimpleFile(file, type) ==
    IF ~file.readable THEN <<>>
    ELSE <<BaseChunk(<<file.path, file.fileName>>, type, file.text, "file")>>

\* parseTypeScriptFile: read, parse and extract inside one try; any failure
\* falls back to parseSimpleFile(file, 'documentation').
parseTypeScriptFile(file) ==
    IF file.readable /\ file.grammarOk
    THEN extractFromAST(file.body, file.path, file.text)
    ELSE parseSimpleFile(file, "documentation")

\* parseSvelteFile: the whole-file chunk, then the chunks of the first
\* <script> block when it parses.  The read is not guarded.
parseSvelteFile(file) ==
    <<BaseChunk(<<file.path, "svelte-component">>, "svelte-component", file.text, "component")>>
    \o (IF file.hasScript /\ file.grammarOk
        THEN extractFromAST(file.body, file.path, file.script)
        ELSE <<>>)

SimpleTypes ==
    [css |-> "css-rule", md |-> "documentation", json |-> "config-file",
     yml |-> "config-file", txt |-> "documentation", html |-> "documentation"]

\* processFile: [threw, chunks] of the processor chosen by the extension.
processFile(file) ==
    CASE file.ext = "svelte" ->
            IF file.readable THEN [threw |-> FALSE, chunks |-> parseSvelteFile(file)]
            ELSE [threw |-> TRUE, chunks |-> <<>>]
      [] file.ext \in {"ts", "js"} -> [threw |-> FALSE, chunks |-> parseTypeScriptFile(file)]
      [] file.ext \in DOMAIN SimpleTypes ->
            [threw |-> FALSE, chunks |-> parseSimpleFile(file, SimpleTypes[file.ext])]
      [] OTHER -> [threw |-> FALSE, chunks |-> <<>>]

\* ---- knowledge files: a line is [level, title, id]; level 2 is a line
\* "## title", level 1 "# title", level 0 any other line (its text is title
\* when title is not "", and it is the empty line when id = 0 as well).
DocLine(level, title, id) == [level |-> level, title |-> title, id |-> id]
IsBlankDocLine(l) == l.level = 0 /\ l.title = "" /\ l.id = 0

\* fileContent.split(/\n## /) (level 2) or split(/\n# /) (level 1): a new
\* piece starts at every header line of that level after the first line, and
\* the separator, with the header's marker, is consumed.
RECURSIVE SplitAtHeaders(_, _, _)
SplitAtHeaders(lines, level, from) ==
    LET cuts == {i \in (from + 1)..Len(lines) : lines[i].level = level}
        first == [lines EXCEPT ![from] =
                    IF from > 1 THEN [lines[from] EXCEPT !.level = 0] ELSE lines[from]]
    IN IF cuts = {} THEN <<SubSeq(first, from, Len(lines))>>
       ELSE LET c == CHOOSE i \in cuts : \A j \in cuts : i <= j
            IN <<SubSeq(first, from, c - 1)>> \o SplitAtHeaders(lines, level, c)

\* .filter(section => section.trim())
NonBlankSections(sections) ==
    SelectSeq(sections, LAMBDA sec : \E k \in DOMAIN sec : ~IsBlankDocLine(sec[k]))

\* processHeaderSections, line 115: id: hash(`knowledge:${filename}:${title}`)
SectionId(filename, title, i) == <<"knowledge", filename, title>>

\* processHeaderSections: a chunk per section; the first section is taken as
\* it is (title 'Introduction') unless it starts with '#', any other gets its
\* header rebuilt from the prefix and the title.
processHeaderSections(sections, filename, prefixLevel) ==
    [i \in DOMAIN sections |->
        LET section == sections[i]
            asIs == i = 1 /\ section[1].level = 0
            title == IF asIs THEN "Introduction" ELSE section[1].title
            text == IF asIs THEN section
                    ELSE <<DocLine(prefixLevel, title, 0)>> \o
                         (IF Len(section) > 1 THEN Tail(section) ELSE <<DocLine(0, "", 0)>>)
        IN [id |-> SectionId(filename, title, i), type |-> "documentation",
            hash |-> text, granularity |-> "component"]]

\* parseLlmsTxt: sections at '##', else at '#', else the file as one chunk.
parseLlmsTxt(lines, filename) ==
    LET sections == NonBlankSections(SplitAtHeaders(lines, 2, 1))
        singleSections == NonBlankSections(SplitAtHeaders(lines, 1, 1))
    IN IF Len(sections) > 1 THEN processHeaderSections(sections, filename, 2)
       ELSE IF Len(singleSections) > 1 THEN processHeaderSections(singleSections, filename, 1)
       ELSE <<BaseChunk(<<"knowledge", filename>>, "documentation", lines, "file")>>

\* ---- the codebases and knowledge files of InitRun
CodeLines(n) == [k \in 1..n |-> [id |-> k, len |-> 10]]
Method(name, s, e) == AstNode("MethodDefinition", name, s, e)

BodyPlain ==
    <<AstNode("TSInterfaceDeclaration", "a", 1, 1),
      VarDecl("const", <<[name |-> "b", init |-> "ArrowFunctionExpression"]>>, 2, 3)>>
BodyMerged ==
    <<AstNode("TSInterfaceDeclaration", "a", 1, 1),
      AstNode("TSInterfaceDeclaration", "a", 2, 3)>>
BodyClass ==
    <<ClassDecl("c", <<Method("m", 2, 2), Method("", 3, 3)>>, 1, 4)>>
BodyExport ==
    <<ExportNamed(<<AstNode("FunctionDeclaration", "a", 1, 2)>>, 1, 2),
      VarDecl("const", <<[name |-> "n", init |-> "Literal"]>>, 3, 3)>>
BodyPool == {BodyPlain, BodyMerged, BodyClass, BodyExport, <<>>}

PathOf ==
    [ts |-> <<"src/f1.ts", "src/f2.ts", "src/f3.ts", "src/f4.ts">>,
     svelte |-> <<"src/f1.svelte", "src/f2.svelte", "src/f3.svelte", "src/f4.svelte">>,
     md |-> <<"src/f1.md", "src/f2.md", "src/f3.md", "src/f4.md">>]
FileNameOf ==
    [ts |-> <<"f1.ts", "f2.ts", "f3.ts", "f4.ts">>,
     svelte |-> <<"f1.svelte", "f2.svelte", "f3.svelte", "f4.svelte">>,
     md |-> <<"f1.md", "f2.md", "f3.md", "f4.md">>]

SourceFile(k, ext, readable, grammarOk, hasScript, body) ==
    [path |-> PathOf[ext][k], fileName |-> FileNameOf[ext][k], ext |-> ext,
     readable |-> readable, grammarOk |-> grammarOk, hasScript |-> hasScript,
     body |-> body,
     text |-> IF ext = "svelte" THEN <<[id |-> 90, len |-> 8]>> \o CodeLines(4) \o
                                     <<[id |-> 91, len |-> 9], [id |-> 92, len |-> 30]>>
              ELSE CodeLines(4),
     script |-> CodeLines(4)]

FilesAt(k) ==
    {SourceFile(k, "ts", TRUE, TRUE, FALSE, b) : b \in BodyPool}
    \cup {SourceFile(k, "ts", TRUE, FALSE, FALSE, <<>>), SourceFile(k, "ts", FALSE, TRUE, FALSE, <<>>)}
    \cup {SourceFile(k, "svelte", TRUE, TRUE, TRUE, b) : b \in {BodyPlain, BodyMerged}}
    \cup {SourceFile(k, "svelte", TRUE, TRUE, FALSE, <<>>), SourceFile(k, "svelte", FALSE, TRUE, FALSE, <<>>)}
    \cup {SourceFile(k, "md", r, TRUE, FALSE, <<>>) : r \in BOOLEAN}

DocTitled ==
    <<DocLine(1, "K", 0), DocLine(0, "", 1), DocLine(2, "A", 0), DocLine(0, "", 2),
      DocLine(2, "B", 0), DocLine(0, "", 3)>>
DocRepeated ==
    <<DocLine(2, "A", 0), DocLine(0, "", 1), DocLine(2, "A", 0), DocLine(0, "", 2)>>
DocPlain == <<DocLine(0, "", 1), DocLine(0, "", 0), DocLine(0, "", 2)>>
DocPool == {DocTitled, DocRepeated, DocPlain}

InitRun ==
    /\ \E n \in 0..MaxRunFiles :
       \E fs \in [1..n -> UNION {FilesAt(k) : k \in 1..n}] :
          /\ \A k \in 1..n : fs[k] \in FilesAt(k)
          /\ codebase = fs
    /\ knowledge \in {[exists |-> FALSE, lines |-> <<>>]}
                        \cup {[exists |-> TRUE, lines |-> d] : d \in DocPool}
    /\ fileIdx = 0 /\ jsonSchema = <<>> /\ rpc = "scan"
    /\ SplitOff /\ BatchOff /\ DispOff /\ OtherOff

\* for await (const file of glob.scan(".")) await this.processFile(file)
ProcessFile ==
    /\ rpc = "scan" /\ fileIdx < Len(codebase)
    /\ LET r == processFile(codebase[fileIdx + 1])
       IN /\ jsonSchema' = jsonSchema \o r.chunks
          /\ rpc' = IF r.threw THEN "aborted" ELSE rpc
    /\ fileIdx' = fileIdx + 1
    /\ UNCHANGED <<codebase, knowledge, splitVars, batchVars, dispVars, otherVars>>

\* await this.processKnowledgeFiles(): svelte5.txt, when it exists.
ProcessKnowledgeFiles ==
    /\ rpc = "scan" /\ fileIdx = Len(codebase)
    /\ jsonSchema' = jsonSchema \o
          (IF knowledge.exists THEN parseLlmsTxt(knowledge.lines, "svelte5.txt") ELSE <<>>)
    /\ rpc' = "save"
    /\ UNCHANGED <<codebase, knowledge, fileIdx, splitVars, batchVars, dispVars, otherVars>>

\* await this.saveSchema(); return this.jsonSchema
SaveSchema ==
    /\ rpc = "save"
    /\ rpc' = "done"
    /\ UNCHANGED <<codebase, knowledge, fileIdx, jsonSchema, splitVars, batchVars, dispVars, otherVars>>

NextRun ==
    \/ ProcessFile
    \/ ProcessKnowledgeFiles
    \/ SaveSchema

SpecRun == InitRun /\ [][NextRun]_vars

\* --------------------------------------- the two extractors on one file

\* Bound of the files drawn in InitExtract: top-level statements.
MaxTopLevel == 2

ExportDefault(inner, s, e) ==
    [AstNode("ExportDefaultDeclaration", "", s, e) EXCEPT !.declaration = inner]

Declarator(name, init) == [name |-> name, init |-> init]

XNames == <<"a", "b", "c", "d", "e", "f", "g", "h", "i", "j", "k", "l", "m", "n", "o", "p">>

StatementShapes ==
    {"function", "interface", "class-field", "class-methods", "const-arrow", "let-arrow",
     "const-fnexpr", "const-literal", "let-noinit", "const-mixed", "const-destructure",
     "export-function", "export-const-arrow", "export-list", "default-function",
     "default-class", "expression", "import"}

\* Lines the statement of a shape takes.
ShapeLines(shape) ==
    CASE shape \in {"function", "export-function", "default-function", "const-fnexpr"} -> 2
      [] shape \in {"class-field", "default-class"} -> 3
      [] shape = "class-methods" -> 4
      [] OTHER -> 1

\* The node the grammar builds for a statement of a shape that starts at line at.
ShapeNode(shape, at) ==
    LET e == at + ShapeLines(shape) - 1
        nm == XNames[at]
    IN CASE shape = "function" -> AstNode("FunctionDeclaration", nm, at, e)
         [] shape = "interface" -> AstNode("TSInterfaceDeclaration", nm, at, e)
         [] shape = "class-field" ->
               ClassDecl(nm, <<AstNode("PropertyDefinition", "x", at + 1, at + 1)>>, at, e)
         [] shape = "class-methods" ->
               ClassDecl(nm, <<Method("m", at + 1, at + 1), Method("n", at + 2, at + 2)>>, at, e)
         [] shape = "const-arrow" ->
               VarDecl("const", <<Declarator(nm, "ArrowFunctionExpression")>>, at, e)
         [] shape = "let-arrow" ->
               VarDecl("let", <<Declarator(nm, "ArrowFunctionExpression")>>, at, e)
         [] shape = "const-fnexpr" ->
               VarDecl("const", <<Declarator(nm, "FunctionExpression")>>, at, e)
         [] shape = "const-literal" -> VarDecl("const", <<Declarator(nm, "Literal")>>, at, e)
         [] shape = "let-noinit" -> VarDecl("let", <<Declarator(nm, "")>>, at, e)
         [] shape = "const-mixed" ->
               VarDecl("const", <<Declarator(nm, "ArrowFunctionExpression"),
                                  Declarator("z", "Literal")>>, at, e)
         [] shape = "const-destructure" ->
               VarDecl("const", <<Declarator("", "Identifier")>>, at, e)
         [] shape = "export-function" ->
               ExportNamed(<<AstNode("FunctionDeclaration", nm, at, e)>>, at, e)
         [] shape = "export-const-arrow" ->
               ExportNamed(<<VarDecl("const", <<Declarator(nm, "ArrowFunctionExpression")>>,
                                     at, e)>>, at, e)
         [] shape = "export-list" -> ExportNamed(<<>>, at, e)
         [] shape = "default-function" ->
               ExportDefault(<<AstNode("FunctionDeclaration", nm, at, e)>>, at, e)
         [] shape = "default-class" ->
               ExportDefault(<<ClassDecl(nm, <<Method("m", at + 1, at + 1)>>, at, e)>>, at, e)
         [] shape = "import" -> AstNode("ImportDeclaration", "", at, e)
         [] OTHER -> AstNode("ExpressionStatement", "", at, e)

RECURSIVE ShapeBody(_, _)
ShapeBody(shapes, at) ==
    IF shapes = <<>> THEN <<>>
    ELSE <<ShapeNode(Head(shapes), at)>>
         \o ShapeBody(Tail(shapes), at + ShapeLines(Head(shapes)))

ShapeLineCount(shapes) == SumSeq([k \in DOMAIN shapes |-> ShapeLines(shapes[k])])

InitExtract ==
    /\ \E n \in 1..MaxTopLevel :
       \E shapes \in [1..n -> StatementShapes] :
          /\ xbody = ShapeBody(shapes, 1)
          /\ xlines = [k \in 1..ShapeLineCount(shapes) |-> [id |-> k, len |-> 20 + k]]
    /\ xextracted = <<>> /\ xchunks = <<>> /\ xpc = "parse"
    /\ SplitOff /\ BatchOff /\ DispOff /\ RunOff /\ KnowOff /\ TwiceOff /\ ServiceOff

\* TypeScriptASTParser.parseFile, the for loop: what each statement adds.
ExtractedPerStatement(lines, body) ==
    [k \in DOMAIN body |-> parseFile(lines, [ok |-> TRUE, body |-> <<body[k]>>]).constructs]

\* Parser.extractFromAST, the for loop: what each statement adds.
ChunksPerStatement(lines, body) ==
    [k \in DOMAIN body |-> extractFromAST(<<body[k]>>, "src/f1.ts", lines)]

\* Both extractors read the file.
Extract ==
    /\ xpc = "parse"
    /\ xextracted' = ExtractedPerStatement(xlines, xbody)
    /\ xchunks' = ChunksPerStatement(xlines, xbody)
    /\ xpc' = "done"
    /\ UNCHANGED <<xlines, xbody, splitVars, batchVars, dispVars, runVars, knowVars, twiceVars, serviceVars>>

NextExtract == Extract

SpecExtract == InitExtract /\ [][NextExtract]_vars

\* --------------------------- one component parsed twice (parseSvelteFile)

\* nanoid(): a random id.  The generator's state when a call of
\* parseSvelteFile starts is any of NanoSeeds; the j-th id of that call is
\* the pair of the seed and j.
NanoSeeds == {"s1", "s2"}
nanoid(seed, j) == <<seed, j>>

\* patternConfig of the component pattern.
ComponentPattern == [semantic |-> "ui-component"]

\* parseSvelteFile, lines 104-120: one chunk per template chunk.
TemplateResults(seed, templateChunks) ==
    [k \in DOMAIN templateChunks |->
        [id |-> nanoid(seed, k),
         type |-> IF templateChunks[k].type = "template"
                  THEN ComponentPattern.semantic ELSE "component",
         section |-> "template",
         subtype |-> templateChunks[k].type,
         content |-> templateChunks[k].content]]

\* parseSvelteFile, lines 123-170: the instance script as one chunk, then one
\* chunk per construct of the script.
ScriptResults(seed, from, script) ==
    IF ~script.present THEN <<>>
    ELSE LET moduleParsed == parseFile(script.lines, script.ast)
         IN <<[id |-> nanoid(seed, from + 1), type |-> "util", section |-> "script",
               subtype |-> "variables", content |-> script.lines]>>
            \o [k \in DOMAIN moduleParsed.constructs |->
                  [id |-> nanoid(seed, from + 1 + k), type |-> "util", section |-> "script",
                   subtype |-> moduleParsed.constructs[k].type,
                   content |-> moduleParsed.constructs[k].content]]

parseSvelteFileResults(seed, len, astv, script) ==
    LET templateChunks == splitLargeTemplate(len, astv, DefaultMaxTokens)
    IN TemplateResults(seed, templateChunks)
       \o ScriptResults(seed, Len(templateChunks), script)

ComponentScripts ==
    {[present |-> FALSE, lines |-> <<>>, ast |-> [ok |-> TRUE, body |-> <<>>]],
     [present |-> TRUE, lines |-> CodeLines(3), ast |-> [ok |-> TRUE, body |-> BodyPlain]]}

InitTwice ==
    /\ DrawTemplate
    /\ chunks = <<>> /\ warnings = <<>> /\ tpc = "off"
    /\ component \in ComponentScripts
    /\ parses = <<>> /\ ppc = "parse"
    /\ BatchOff /\ DispOff /\ RunOff /\ ExtOff /\ KnowOff /\ ServiceOff

\* A call of parseSvelteFile on the component; it is called twice.
ParseSvelteFile ==
    /\ ppc = "parse" /\ Len(parses) < 2
    /\ \E seed \in NanoSeeds :
          parses' = Append(parses,
                       parseSvelteFileResults(seed, templateContent, svelteAst, component))
    /\ UNCHANGED <<component, ppc, splitVars, batchVars, dispVars, runVars, extVars, knowVars, serviceVars>>

NextTwice == ParseSvelteFile

SpecTwice == InitTwice /\ [][NextTwice]_vars

\* C18: processing the same component file twice yields the identical chunk
\* sequence: as many chunks, in the same order, each pair equal in content,
\* type, metadata and id.
C18_SameChunksTwice ==
    Len(parses) = 2 => parses[1] = parses[2]

WithoutId(c) == [f \in DOMAIN c \ {"id"} |-> c[f]]

\* C18 without the ids: the two results agree in number, order, content,
\* type and metadata.
C18_SameChunksApartFromIds ==
    Len(parses) = 2 =>
        /\ Len(parses[1]) = Len(parses[2])
        /\ \A k \in DOMAIN parses[1] : WithoutId(parses[1][k]) = WithoutId(parses[2][k])

\* ------------------------- the knowledge splitter on one document

\* Bound of the documents drawn in InitKnow: lines.
MaxDocLines == 4

\* The lines a document is made of: headers, text lines of three lengths (a
\* text line is told by its id) and the empty line.
KnowLines ==
    {DocLine(2, "A", 0), DocLine(2, "B", 0), DocLine(1, "K", 0),
     DocLine(0, "", 1), DocLine(0, "", 2), DocLine(0, "", 3), DocLine(0, "", 0)}

\* Length in characters of a text line, by its id.
TextLineLens == <<100, 3000, 5000>>

\* Length of a line: '#' marks, a space and the one-letter title for a
\* header, the title for a line that is a title without marks.
DocLineLen(l) ==
    IF l.level > 0 THEN l.level + 2
    ELSE IF l.title # "" THEN 1
    ELSE IF l.id = 0 THEN 0 ELSE TextLineLens[l.id]

\* content.length of a text given by its lines.
DocLen(text) ==
    IF text = <<>> THEN 0
    ELSE SumSeq([k \in DOMAIN text |-> DocLineLen(text[k])]) + (Len(text) - 1)

InitKnow ==
    /\ \E n \in 1..MaxDocLines : kdoc \in [1..n -> KnowLines]
    /\ kchunks = <<>> /\ kpc = "parse"
    /\ SplitOff /\ BatchOff /\ DispOff /\ RunOff /\ ExtOff /\ TwiceOff /\ ServiceOff

\* await this.parseLlmsTxt(filePath, filename)
ParseLlmsTxt ==
    /\ kpc = "parse"
    /\ kchunks' = parseLlmsTxt(kdoc, "svelte5.txt")
    /\ kpc' = "done"
    /\ UNCHANGED <<kdoc, splitVars, batchVars, dispVars, runVars, extVars, twiceVars, serviceVars>>

NextKnow == ParseLlmsTxt

SpecKnow == InitKnow /\ [][NextKnow]_vars

\* ------------------------------------------ claims: the knowledge splitter

\* The positions of the document's '##' header lines, in document order.
SectionHeaders == SortedSeq({i \in DOMAIN kdoc : kdoc[i].level = 2})

\* C19: a document with exactly k >= 2 '##' sections yields exactly k chunks,
\* one per section in document order, each beginning with the section's own
\* header line, unchanged, whatever precedes the first '##' header.
C19_OneChunkPerSection ==
    (kpc = "done" /\ Len(SectionHeaders) >= 2) =>
        /\ Len(kchunks) = Len(SectionHeaders)
        /\ \A j \in DOMAIN kchunks : kchunks[j].hash[1] = kdoc[SectionHeaders[j]]

\* C19 for a document that starts with its first '##' header.
C19_OneChunkPerSectionFromLineOne ==
    (kpc = "done" /\ Len(SectionHeaders) >= 2 /\ kdoc[1].level = 2) =>
        /\ Len(kchunks) = Len(SectionHeaders)
        /\ \A j \in DOMAIN kchunks : kchunks[j].hash[1] = kdoc[SectionHeaders[j]]

\* The budget of a knowledge unit, in characters (about 4000 by the design).
KnowledgeBudgetChars == 4 * DefaultMaxTokens

\* A text is one paragraph when no empty line lies between two of its
\* non-empty lines.
IsSingleParagraph(text) ==
    \A i, j \in DOMAIN text :
        (i < j /\ ~IsBlankDocLine(text[i]) /\ ~IsBlankDocLine(text[j])) =>
            \A m \in (i + 1)..(j - 1) : ~IsBlankDocLine(text[m])

\* C20: every unit the knowledge splitter emits is within the budget, except
\* a single paragraph that alone exceeds it; a document without headers that
\* exceeds the budget is not emitted as one chunk.
C20_KnowledgeUnitsWithinBudget ==
    kpc = "done" =>
        \A j \in DOMAIN kchunks :
            \/ DocLen(kchunks[j].hash) <= KnowledgeBudgetChars
            \/ IsSingleParagraph(kchunks[j].hash)

\* ------------------------------------------------- claims: the extractors

\* The declaration a statement holds: its own, or the one an export wraps.
Unwrapped(node) ==
    IF node.type \in {"ExportNamedDeclaration", "ExportDefaultDeclaration"}
       /\ node.declaration # <<>>
    THEN node.declaration[1] ELSE node

FunctionDeclarators(node) ==
    SelectSeq(node.declarations, LAMBDA d : IsFunctionInit(d.init))

\* C12: a variable declarator yields a construct only when its initializer is
\* a function or arrow-function expression: a variable declaration yields as
\* many constructs as it has such declarators, each named after one of them.
C12_OnlyFunctionDeclarators ==
    xpc = "done" =>
        \A k \in DOMAIN xbody :
            LET d == Unwrapped(xbody[k]) IN
            d.type = "VariableDeclaration" =>
                /\ Len(xextracted[k]) = Len(FunctionDeclarators(d))
                /\ \A i \in DOMAIN xextracted[k] :
                      \E j \in DOMAIN d.declarations :
                          /\ d.declarations[j].name = xextracted[k][i].name
                          /\ IsFunctionInit(d.declarations[j].init)
                /\ Len(xchunks[k]) = Len(FunctionDeclarators(d))

IsSingleArrow(node) ==
    /\ node.type = "VariableDeclaration"
    /\ Len(node.declarations) = 1
    /\ node.declarations[1].name # ""
    /\ node.declarations[1].init = "ArrowFunctionExpression"

\* C13: a top-level variable declaration with one declarator whose
\* initializer is an arrow function yields exactly one construct, of type
\* function, with isArrowFunction true and isConst true exactly for const.
C13_ArrowConstIsOneFunction ==
    xpc = "done" =>
        \A k \in DOMAIN xbody :
            IsSingleArrow(xbody[k]) =>
                /\ Len(xextracted[k]) = 1
                /\ xextracted[k][1].type = "function"
                /\ xextracted[k][1].name = xbody[k].declarations[1].name
                /\ xextracted[k][1].metadata.isArrowFunction = TRUE
                /\ xextracted[k][1].metadata.isConst = (xbody[k].kind = "const")

\* C13 witness: `const a = () => ...` and `let b = () => ...` were extracted.
C13_Witness ==
    /\ xpc = "done"
    /\ \E k, j \in DOMAIN xbody :
          /\ IsSingleArrow(xbody[k]) /\ xbody[k].kind = "const"
          /\ IsSingleArrow(xbody[j]) /\ xbody[j].kind = "let"

MethodsOf(node) == SelectSeq(node.members, LAMBDA m : m.type = "MethodDefinition")

\* C14: a class declaration with n method members yields n + 1 constructs,
\* the class first and then one per method, in both extractors; the method
\* chunks are keyed by class name and method name.
C14_ClassYieldsMethods ==
    xpc = "done" =>
        \A k \in DOMAIN xbody :
            xbody[k].type = "ClassDeclaration" =>
                LET ms == MethodsOf(xbody[k]) IN
                /\ Len(xextracted[k]) = Len(ms) + 1
                /\ Len(xchunks[k]) = Len(ms) + 1
                /\ \A i \in DOMAIN ms :
                      xchunks[k][i + 1].id = HashKey(<<"src/f1.ts", xbody[k].name, ms[i].name>>)

\* C15: an export wrapper, named or default, yields exactly the constructs
\* of the declaration it wraps, each tagged exported, and a construct of a
\* statement that is no export wrapper never carries the tag.
C15_ExportWrapsAndTags ==
    xpc = "done" =>
        \A k \in DOMAIN xbody :
            IF xbody[k].type \in {"ExportNamedDeclaration", "ExportDefaultDeclaration"}
            THEN xbody[k].declaration # <<>> =>
                    LET inner == extractFromNode(xbody[k].declaration[1], xlines)
                    IN xextracted[k] = [i \in DOMAIN inner |-> MarkExported(inner[i])]
            ELSE \A i \in DOMAIN xextracted[k] :
                    "isExported" \notin DOMAIN xextracted[k][i].metadata

\* C16: the content of every construct is the file's lines startLine through
\* endLine, whole, with 1 <= startLine <= endLine <= number of lines.
C16_ContentIsWholeLines ==
    \A k \in DOMAIN xextracted :
        \A i \in DOMAIN xextracted[k] :
            LET c == xextracted[k][i] IN
            /\ 1 <= c.startLine /\ c.startLine <= c.endLine /\ c.endLine <= Len(xlines)
            /\ c.content = [j \in 1..(c.endLine - c.startLine + 1) |-> xlines[c.startLine + j - 1]]

\* C16 witness: a construct of several lines that does not start the file,
\* and a one-line construct.
C16_Witness ==
    /\ xpc = "done"
    /\ \E k \in DOMAIN xextracted : \E i \in DOMAIN xextracted[k] :
          xextracted[k][i].startLine > 1 /\ xextracted[k][i].endLine > xextracted[k][i].startLine
    /\ \E k \in DOMAIN xextracted : \E i \in DOMAIN xextracted[k] :
          xextracted[k][i].startLine = xextracted[k][i].endLine

\* ------------------------------------------------ claims: the Parser's run

\* C9: within one run of chunkCodebase no two emitted chunks have the same id.
C9_ChunkIdsUnique ==
    \A i, j \in DOMAIN jsonSchema : i # j => jsonSchema[i].id # jsonSchema[j].id

\* C11: a read or parse failure of one file never leaves that file's
\* processing: the run is never aborted by a file, and it reaches the knowledge
\* step only after every scanned file was processed.
C11_FileFailureStaysInFile ==
    /\ rpc # "aborted"
    /\ rpc \in {"save", "done"} => fileIdx = Len(codebase)

\* -------------------------------------------- claims: construct batcher

Budget4 == 4 * MaxBatchTokens
Size4(k) == StrLen(constructs[k].content)
\* The constructs of emitted chunk j, and their contents.
Members(j) == emitted[j]
MemberContents(j) == [m \in DOMAIN emitted[j] |-> constructs[emitted[j][m]].content]
MemberSum4(j) == SumSeq([m \in DOMAIN emitted[j] |-> Size4(emitted[j][m])])
IsSingletonOversized(j) == Len(emitted[j]) = 1 /\ Size4(emitted[j][1]) > Budget4
\* text occurs in file as a run of consecutive whole lines.
IsSliceOf(text, file) ==
    \E s \in 1..Len(file) :
        s + Len(text) - 1 <= Len(file) /\ SubSeq(file, s, s + Len(text) - 1) = text
\* The lines of the file a construct was cut from.
FileRange(c) == SubSeq(content, c.startLine, c.endLine)

\* C3: a construct whose own size exceeds the budget is emitted as a chunk
\* holding exactly its content alone, after everything before it was flushed.
C3_OversizedEmittedAlone ==
    \A k \in 1..idx :
        Size4(k) > Budget4 =>
            \E j \in DOMAIN results :
                /\ emitted[j] = <<k>>
                /\ results[j] = constructs[k].content
                /\ \A k2 \in 1..(k - 1) : \E j2 \in 1..(j - 1) : k2 \in Range(emitted[j2])
                /\ \A j2 \in DOMAIN emitted : j2 # j => k \notin Range(emitted[j2])

\* C3 witness: an oversized construct between two others went through.
C3_Witness ==
    /\ bpc = "done"
    /\ \E k \in 2..(Len(constructs) - 1) :
          /\ Size4(k) > Budget4
          /\ Size4(k - 1) <= Budget4 /\ Size4(k + 1) <= Budget4

\* C4: the constructs of the emitted chunks, listed in emission order, are
\* exactly the input sequence, and each chunk's text is its constructs' join.
C4_OrderPreserved ==
    /\ Len(emitted) = Len(results)
    /\ \A j \in DOMAIN results : results[j] = JoinBlank(MemberContents(j))
    /\ bpc = "done" => Flatten(emitted) = [k \in 1..Len(constructs) |-> k]
    /\ bpc = "loop" =>
          Flatten(emitted) \o [m \in 1..Len(buffer) |-> idx - Len(buffer) + m]
             = [k \in 1..idx |-> k]

\* C4 witness: a run that emitted two chunks, one of them of two constructs.
C4_Witness ==
    /\ bpc = "done" /\ Len(results) >= 2
    /\ \E j \in DOMAIN emitted : Len(emitted[j]) >= 2

\* C5: a chunk emitted from the buffer holds constructs whose sizes sum to at
\* most the budget, and a buffer flushed before the end of input is one the
\* next construct did not fit into.
C5_GreedyWithinBudget ==
    \A j \in DOMAIN emitted :
        ~IsSingletonOversized(j) =>
            /\ MemberSum4(j) <= Budget4
            /\ LET last == emitted[j][Len(emitted[j])]
               IN (last < Len(constructs) /\ last < idx)
                     => MemberSum4(j) + Size4(last + 1) > Budget4

\* C5 witness: a buffer of two constructs was flushed because a third did not fit.
C5_Witness ==
    \E j \in DOMAIN emitted :
        /\ Len(emitted[j]) >= 2 /\ ~IsSingletonOversized(j)
        /\ emitted[j][Len(emitted[j])] < Len(constructs)
        /\ Size4(emitted[j][Len(emitted[j])] + 1) <= Budget4

\* C6: the estimated size of every emitted chunk's final text is within the
\* budget, unless the chunk is a single construct that alone exceeds it.
C6_JoinedTextWithinBudget ==
    \A j \in DOMAIN results :
        StrLen(results[j]) <= Budget4 \/ IsSingletonOversized(j)

C10_RejectedFileYieldsWholeFileChunk ==
    (bpc = "done" /\ ~ast.ok) =>
        /\ Len(constructs) = 1
        /\ constructs[1].content = content
        /\ "opaque" \in DOMAIN constructs[1].metadata
        /\ results = <<content>>


\* -------------------------------------------- claims: template splitter

Nodes == svelteAst.nodes
IsOver(c) == OverTokens(c.estimatedTokens4, DefaultMaxTokens)
NodeLen(i) == Nodes[i].end - Nodes[i].start
IsFallback(c) == c.type = "template"
\* The node a chunk was cut from: the one with the chunk's range.
NodeOfChunk(c) ==
    CHOOSE i \in DOMAIN Nodes :
        Nodes[i].start = c.content.start /\ Nodes[i].end = c.content.end
\* What recursion into node i's children yields.
ChildYield(i) ==
    Flatten([k \in DOMAIN Nodes[i].children |->
        processASTNodeRecursive(Nodes, Nodes[i].children[k], DefaultMaxTokens)])
\* The part of the output that lies in node i's range.
ResultFor(i) ==
    SelectSeq(chunks, LAMBDA c : /\ ~IsFallback(c)
                                 /\ Nodes[i].start <= c.content.start
                                 /\ c.content.end <= Nodes[i].end)

C2_SplitReplacesParent ==
    tpc = "done" =>
        \A k \in DOMAIN svelteAst.html.children :
            LET i == svelteAst.html.children[k]
                kids == Nodes[i].children
            IN /\ (OverTokens(NodeLen(i), DefaultMaxTokens) /\ Len(ChildYield(i)) > 1)
                    => /\ ResultFor(i) = ChildYield(i)
                       /\ \A j \in DOMAIN ResultFor(i) :
                             ResultFor(i)[j].content # Slice(Nodes[i].start, Nodes[i].end)
               /\ ( /\ OverTokens(NodeLen(i), DefaultMaxTokens)
                    /\ Nodes[i].type = "IfBlock"
                    /\ Len(kids) > 1
                    /\ \A j \in DOMAIN kids :
                          /\ Nodes[kids[j]].type = "Element"
                          /\ ~OverTokens(NodeLen(kids[j]), DefaultMaxTokens) )
                    => /\ Len(ResultFor(i)) = Len(kids)
                       /\ \A j \in DOMAIN ResultFor(i) : ~IsOver(ResultFor(i)[j])

\* C2 away from offset 0 (a node that starts at offset 0 is dropped by
\* processASTNode, see C23): the same statement for nodes with start > 0.
C2_SplitReplacesParentAwayFromZero ==
    tpc = "done" =>
        \A k \in DOMAIN svelteAst.html.children :
            LET i == svelteAst.html.children[k]
            IN (Nodes[i].start > 0 /\ OverTokens(NodeLen(i), DefaultMaxTokens)
                  /\ Len(ChildYield(i)) > 1)
                    => /\ ResultFor(i) = ChildYield(i)
                       /\ \A j \in DOMAIN ResultFor(i) :
                             ResultFor(i)[j].content # Slice(Nodes[i].start, Nodes[i].end)

\* Chunks cut exactly from node i, and warnings given for exactly its slice.
ChunksOfNode(i) ==
    SelectSeq(chunks, LAMBDA c : /\ ~IsFallback(c)
                                 /\ c.content = Slice(Nodes[i].start, Nodes[i].end))
WarningsOfNode(i) ==
    SelectSeq(warnings, LAMBDA w : w = Slice(Nodes[i].start, Nodes[i].end))

IsOversizedLeaf(i) ==
    Nodes[i].children = <<>> /\ OverTokens(NodeLen(i), DefaultMaxTokens)

\* C17: a template node over the budget that has no children is emitted as
\* exactly one chunk holding the node's whole text, and one warning is logged
\* for it.
C17_OversizedLeafEmittedWithWarning ==
    tpc = "done" =>
        \A i \in DOMAIN Nodes :
            IsOversizedLeaf(i) =>
                /\ Len(ChunksOfNode(i)) = 1
                /\ Len(WarningsOfNode(i)) = 1

\* C17 for the leaves the recursion reaches as one of several candidates: a
\* top-level oversized leaf that does not start at offset 0.
C17_TopLevelLeafAwayFromZero ==
    tpc = "done" =>
        \A k \in DOMAIN svelteAst.html.children :
            LET i == svelteAst.html.children[k] IN
            (IsOversizedLeaf(i) /\ Nodes[i].start > 0) =>
                /\ Len(ChunksOfNode(i)) = 1
                /\ Len(WarningsOfNode(i)) = 1

\* A chunk covers node i when its range lies in the node's range (the node's
\* own slice, or a descendant's) or holds it (an ancestor's, or the whole
\* template).
Covers(c, i) ==
    \/ Nodes[i].start <= c.content.start /\ c.content.end <= Nodes[i].end
    \/ c.content.start <= Nodes[i].start /\ Nodes[i].end <= c.content.end

\* C23: every template node that is not a text node below the minimum size
\* is covered by the output, wherever it starts, offset 0 included.
C23_EveryNodeCovered ==
    tpc = "done" =>
        \A i \in DOMAIN Nodes :
            ~ProcessASTNodeDropsText(Nodes[i]) =>
                \E k \in DOMAIN chunks : Covers(chunks[k], i)

\* C23 for the templates in which no node starts at offset 0.
C23_EveryNodeCoveredAwayFromZero ==
    (tpc = "done" /\ \A i \in DOMAIN Nodes : Nodes[i].start > 0) =>
        \A i \in DOMAIN Nodes :
            ~ProcessASTNodeDropsText(Nodes[i]) =>
                \E k \in DOMAIN chunks : Covers(chunks[k], i)

\* C30: the chunks of one file are slices in strictly increasing start
\* order with pairwise disjoint ranges: each chunk ends where or before the
\* next one starts, and no chunk is empty.
C30_ChunksDisjointInOrder ==
    tpc = "done" =>
        /\ \A k \in DOMAIN chunks : chunks[k].content.start < chunks[k].content.end
        /\ \A k \in 1..(Len(chunks) - 1) :
              /\ chunks[k].content.start < chunks[k + 1].content.start
              /\ chunks[k].content.end <= chunks[k + 1].content.start

\* C30 witness: an over-budget parent was split and the output holds the
\* chunks of its two children, not its own.
C30_Witness ==
    /\ tpc = "done"
    /\ Len(chunks) = 2
    /\ \E i \in DOMAIN Nodes :
          /\ Nodes[i].children # <<>>
          /\ OverTokens(NodeLen(i), DefaultMaxTokens)
          /\ Len(ResultFor(i)) = 2
          /\ ResultFor(i) = ChildYield(i)

\* -------------------------------------- the vector store manager (chroma.ts)

\* storeChunks: const MAX_BATCH_SIZE = 100; const MAX_TOKEN_ESTIMATE = 8000
MAX_BATCH_SIZE == 100
MAX_TOKEN_ESTIMATE == 8000

\* Bound of the chunk lists drawn in InitStore: a list starts with up to
\* MaxStorePrefix chunks of any length and goes on with short chunks.
MaxStorePrefix == 2

\* Content lengths (characters): one token, half the token limit, and one
\* character over four times the limit.
StoreLens == {4, 16000, 32001}
\* How many short chunks follow: none, one, a full batch, a full batch and one.
TailCounts == {0, 1, MAX_BATCH_SIZE, MAX_BATCH_SIZE + 1}

\* Math.ceil(contents[i].length / 4)
EstimatedTokens(len) == (len + 3) \div 4

StoreInput(prefix, tail) ==
    [k \in 1..(Len(prefix) + tail) |->
        [id |-> k, len |-> IF k <= Len(prefix) THEN prefix[k] ELSE 4]]

InitStore ==
    /\ \E n \in 0..MaxStorePrefix :
       \E prefix \in [1..n -> StoreLens] :
       \E tail \in TailCounts :
          input = StoreInput(prefix, tail)
    /\ collection = "null"
    /\ collectionExists \in BOOLEAN
    /\ si = 0 /\ currentBatch = <<>> /\ tokenEstimate = 0 /\ calls = <<>>
    /\ spc = "new"
    /\ EngineOff /\ HookOff /\ AuthOff /\ AsstOff /\ SizeOff

\* initializeCollection: this.collection = await getOrCreateCollection(...)
InitializeCollection ==
    /\ spc = "new"
    /\ collection' = "code_chunks"
    /\ collectionExists' = TRUE
    /\ spc' = "ready"
    /\ UNCHANGED <<input, si, currentBatch, tokenEstimate, calls,
                   engineVars, hookVars, authVars, asstVars, sizeVars>>

\* clearCollection: deletes the collection in the store; this.collection
\* keeps the handle (the re-initialisation is commented out).
ClearCollection ==
    /\ spc = "ready"
    /\ collectionExists' = (IF collection = "null" THEN collectionExists ELSE FALSE)
    /\ spc' = "cleared"
    /\ UNCHANGED <<collection, input, si, currentBatch, tokenEstimate, calls,
                   engineVars, hookVars, authVars, asstVars, sizeVars>>

\* storeChunks is called: the batch, its contents and its estimate start empty.
StoreChunks ==
    /\ spc \in {"ready", "cleared"}
    /\ currentBatch' = <<>> /\ tokenEstimate' = 0 /\ si' = 0
    /\ spc' = "loop"
    /\ UNCHANGED <<collection, collectionExists, input, calls,
                   engineVars, hookVars, authVars, asstVars, sizeVars>>

\* processBatch: await this.collection?.upsert(...).  Nothing is sent without
\* a handle; the store rejects an upsert into a collection it does not hold;
\* its answer to an upsert without ids is not fixed by the sources.
UpsertOutcomes(batch) ==
    IF collection = "null" THEN {"none"}
    ELSE IF ~collectionExists THEN {"rejected"}
    ELSE IF batch = <<>> THEN {"stored", "rejected"}
    ELSE {"stored"}

ProcessBatchCall(batch, outcome) ==
    [batch |-> batch, upsert |-> outcome, existed |-> collectionExists]

\* tokenEstimate + estimatedTokens > MAX_TOKEN_ESTIMATE ||
\* currentBatch.length >= MAX_BATCH_SIZE
MustFlush(estimatedTokens) ==
    \/ tokenEstimate + estimatedTokens > MAX_TOKEN_ESTIMATE
    \/ Len(currentBatch) >= MAX_BATCH_SIZE

\* One iteration that flushes: processBatch on the pending batch, then the
\* chunk starts the next batch.  A rejected upsert leaves storeChunks.
StoreFlushAndPush ==
    /\ spc = "loop" /\ si < Len(input)
    /\ MustFlush(EstimatedTokens(input[si + 1].len))
    /\ \E outcome \in UpsertOutcomes(currentBatch) :
          /\ calls' = Append(calls, ProcessBatchCall(currentBatch, outcome))
          /\ IF outcome = "rejected"
             THEN spc' = "failed" /\ UNCHANGED <<si, currentBatch, tokenEstimate>>
             ELSE /\ currentBatch' = <<input[si + 1]>>
                  /\ tokenEstimate' = EstimatedTokens(input[si + 1].len)
                  /\ si' = si + 1
                  /\ spc' = spc
    /\ UNCHANGED <<collection, collectionExists, input,
                   engineVars, hookVars, authVars, asstVars, sizeVars>>

\* One iteration that does not flush.
StorePush ==
    /\ spc = "loop" /\ si < Len(input)
    /\ ~MustFlush(EstimatedTokens(input[si + 1].len))
    /\ currentBatch' = Append(currentBatch, input[si + 1])
    /\ tokenEstimate' = tokenEstimate + EstimatedTokens(input[si + 1].len)
    /\ si' = si + 1
    /\ UNCHANGED <<collection, collectionExists, input, calls, spc,
                   engineVars, hookVars, authVars, asstVars, sizeVars>>

\* After the loop: if (currentBatch.length > 0) processBatch(...)
StoreFinish ==
    /\ spc = "loop" /\ si = Len(input)
    /\ IF currentBatch = <<>>
       THEN calls' = calls /\ spc' = "done"
       ELSE \E outcome \in UpsertOutcomes(currentBatch) :
               /\ calls' = Append(calls, ProcessBatchCall(currentBatch, outcome))
               /\ spc' = IF outcome = "rejected" THEN "failed" ELSE "done"
    /\ UNCHANGED <<collection, collectionExists, input, si, currentBatch, tokenEstimate,
                   engineVars, hookVars, authVars, asstVars, sizeVars>>

NextStore ==
    \/ InitializeCollection
    \/ ClearCollection
    \/ StoreChunks
    \/ StoreFlushAndPush
    \/ StorePush
    \/ StoreFinish

SpecStore == InitStore /\ [][NextStore]_vars

\* ----------------------------------------- claims: the vector store manager

StoredBatches ==
    LET stored == SelectSeq(calls, LAMBDA c : c.upsert = "stored")
    IN [k \in DOMAIN stored |-> stored[k].batch]

BatchTokens(batch) == SumSeq([k \in DOMAIN batch |-> EstimatedTokens(batch[k].len)])

\* C21: storeChunks on a manager whose collection is in the store delivers
\* the list as consecutive batches: when it has returned, the upserted
\* batches put end to end are the input (every chunk once, with its own
\* content, in input order), and no batch ever holds more than 100 chunks or
\* more than 8000 estimated tokens unless it is a single chunk.
C21_BatchesDeliverInput ==
    /\ \A k \in DOMAIN calls :
          /\ Len(calls[k].batch) <= MAX_BATCH_SIZE
          /\ \/ BatchTokens(calls[k].batch) <= MAX_TOKEN_ESTIMATE
             \/ Len(calls[k].batch) = 1
    /\ (spc \in {"done", "failed"} /\ collectionExists) =>
          Flatten(StoredBatches) = input

\* C26: processBatch is never called with an empty batch.
C26_NoEmptyBatch ==
    \A k \in DOMAIN calls : calls[k].batch # <<>>

maxChars == 6000

\* Bound of the number of lines of the texts drawn in InitSize.
MaxSizeLines == 3

\* A line is modelled by its length; a text is the sequence of its lines
\* (text.split('\n') never returns an empty array: the empty text is one
\* empty line).  Lengths: empty, just under half, half, over the limit.
SizeLineLens == {0, 2999, 3000, 6001}

\* current.join('\n').length
JoinedLength(ls) == SumSeq(ls) + (Len(ls) - 1)

InitSize ==
    /\ \E n \in 1..MaxSizeLines : sizeLines \in [1..n -> SizeLineLens]
    /\ sizeChunks = <<>> /\ sizeCurrent = <<>> /\ currentSize = 0 /\ sizeIdx = 0
    /\ szpc = "loop"
    /\ EngineOff /\ StoreOff /\ HookOff /\ AuthOff /\ AsstOff

\* if (currentSize + line.length > maxChars && current.length > 0)
SizeMustFlush(line) == currentSize + line > maxChars /\ Len(sizeCurrent) > 0

\* The flushing branch: chunks.push(current.join('\n')); current = [line];
\* currentSize = line.length
SizeFlushLine ==
    /\ szpc = "loop" /\ sizeIdx < Len(sizeLines)
    /\ SizeMustFlush(sizeLines[sizeIdx + 1])
    /\ sizeChunks' = Append(sizeChunks, sizeCurrent)
    /\ sizeCurrent' = <<sizeLines[sizeIdx + 1]>>
    /\ currentSize' = sizeLines[sizeIdx + 1]
    /\ sizeIdx' = sizeIdx + 1
    /\ UNCHANGED <<sizeLines, szpc, engineVars, storeVars, hookVars, authVars, asstVars>>

\* The other branch: current.push(line); currentSize += line.length + 1
SizePushLine ==
    /\ szpc = "loop" /\ sizeIdx < Len(sizeLines)
    /\ ~SizeMustFlush(sizeLines[sizeIdx + 1])
    /\ sizeCurrent' = Append(sizeCurrent, sizeLines[sizeIdx + 1])
    /\ currentSize' = currentSize + sizeLines[sizeIdx + 1] + 1
    /\ sizeIdx' = sizeIdx + 1
    /\ UNCHANGED <<sizeLines, sizeChunks, szpc, engineVars, storeVars, hookVars, authVars, asstVars>>

\* After the loop: if (current.length > 0) chunks.push(current.join('\n'))
SizeFinish ==
    /\ szpc = "loop" /\ sizeIdx = Len(sizeLines)
    /\ sizeChunks' = IF Len(sizeCurrent) > 0 THEN Append(sizeChunks, sizeCurrent)
                     ELSE sizeChunks
    /\ szpc' = "done"
    /\ UNCHANGED <<sizeLines, sizeCurrent, currentSize, sizeIdx,
                   engineVars, storeVars, hookVars, authVars, asstVars>>

NextSplitBySize ==
    \/ SizeFlushLine
    \/ SizePushLine
    \/ SizeFinish

SpecSize == InitSize /\ [][NextSplitBySize]_vars

\* ------------------------------------------------ claims: splitting by size

\* A chunk is the empty string when it is one empty line.
EmptyChunk(c) == JoinedLength(c) = 0
EmptyText == sizeLines = <<0>>

\* C28: splitBySize loses nothing: the returned chunks joined with newlines
\* are the input text, and no returned chunk is the empty string unless the
\* input text is empty.
C28_NothingLostNoEmptyChunk ==
    szpc = "done" =>
        /\ Flatten(sizeChunks) = sizeLines
        /\ ~EmptyText => \A k \in DOMAIN sizeChunks : ~EmptyChunk(sizeChunks[k])

\* C29: every chunk of splitBySize that holds more than one line is at most
\* maxChars characters long.
C29_MultiLineChunkWithinMax ==
    \A k \in DOMAIN sizeChunks :
        Len(sizeChunks[k]) > 1 => JoinedLength(sizeChunks[k]) <= maxChars

\* ----------------------------------------- the webhook route (POST /webhook)

\* Bound of the number of tokens of the comments drawn in InitHook.
MaxCommentTokens == 4

\* A comment is a sequence of tokens; two tokens are separated by one blank,
\* and "\n" is a line break.  Mentions are the tokens that start with @.
CommentTokens == {"@starscream", "@alice", "fix", "now", "\n"}
HookEvents == {"issue_comment", "pull_request"}
HookActions == {"created", "edited"}

IsMention(t) == t \in {"@starscream", "@alice"}
\* The group (\w+) of a mention.
MentionName(t) == IF t = "@starscream" THEN "starscream" ELSE "alice"

Least(S) == CHOOSE i \in S : \A j \in S : i <= j

\* comment.match(/@(\w+)\s+(.+)/): the leftmost @word that is followed by
\* white space (line breaks included) and then by at least one character that
\* is not a line break; group 2 runs from there to the end of that line.
match(comment) ==
    LET starts == {i \in DOMAIN comment :
                      /\ IsMention(comment[i])
                      /\ \E j \in (i + 1)..Len(comment) : comment[j] # "\n"}
    IN  IF starts = {} THEN [found |-> FALSE, name |-> "", command |-> <<>>]
        ELSE LET i == Least(starts)
                 j == Least({k \in (i + 1)..Len(comment) : comment[k] # "\n"})
                 breaks == {k \in j..Len(comment) : comment[k] = "\n"}
                 e == IF breaks = {} THEN Len(comment) + 1 ELSE Least(breaks)
             IN  [found |-> TRUE, name |-> MentionName(comment[i]),
                  command |-> SubSeq(comment, j, e - 1)]

InitHook ==
    /\ \E n \in 0..MaxCommentTokens :
       \E comment \in [1..n -> CommentTokens] :
       \E event \in HookEvents, action \in HookActions :
          hookRequest = [event |-> event, action |-> action, comment |-> comment]
    /\ invocations = <<>> /\ hookResponse = 0
    /\ hpc = "request"
    /\ EngineOff /\ StoreOff /\ AuthOff /\ AsstOff /\ SizeOff

\* event === 'issue_comment' && body.action === 'created' && mention &&
\* mention[1] === 'starscream'
HookInvokes ==
    /\ hookRequest.event = "issue_comment"
    /\ hookRequest.action = "created"
    /\ match(hookRequest.comment).found
    /\ match(hookRequest.comment).name = "starscream"

\* The handler on a request that reaches processCommand: it answers success
\* when processCommand returns and 500 when it throws (the catch of
\* processCommand posts a comment without a guard of its own).
WebhookInvoke ==
    /\ hpc = "request"
    /\ HookInvokes
    /\ invocations' = Append(invocations, match(hookRequest.comment).command)
    /\ \E threw \in BOOLEAN : hookResponse' = IF threw THEN 500 ELSE 200
    /\ hpc' = "done"
    /\ UNCHANGED <<hookRequest, engineVars, storeVars, authVars, asstVars, sizeVars>>

\* The handler on any other request: return c.json({ success: true })
WebhookIgnore ==
    /\ hpc = "request"
    /\ ~HookInvokes
    /\ hookResponse' = 200
    /\ hpc' = "done"
    /\ UNCHANGED <<hookRequest, invocations, engineVars, storeVars, authVars, asstVars, sizeVars>>

NextHook ==
    \/ WebhookInvoke
    \/ WebhookIgnore

SpecHook == InitHook /\ [][NextHook]_vars

\* ------------------------------------------------- claims: the webhook route

\* The text a mention at token i is followed by: from the first token after
\* it that is not a line break to the end of that token's line.
CommandAfter(comment, i) ==
    LET rest == {k \in (i + 1)..Len(comment) : comment[k] # "\n"}
    IN  IF rest = {} THEN <<>>
        ELSE LET j == Least(rest)
                 breaks == {k \in j..Len(comment) : comment[k] = "\n"}
             IN  SubSeq(comment, j, (IF breaks = {} THEN Len(comment) + 1 ELSE Least(breaks)) - 1)

\* The commands a comment addresses to the assistant.
StarscreamCommands(comment) ==
    {CommandAfter(comment, i) :
        i \in {k \in DOMAIN comment : comment[k] = "@starscream"}} \ {<<>>}

\* The comment holds an @starscream mention with a command on the same line.
CommandOnSameLine(comment) ==
    \E i \in 1..(Len(comment) - 1) :
        comment[i] = "@starscream" /\ comment[i + 1] # "\n"

\* C22: a created issue comment that holds an @starscream mention followed by
\* a command invokes the assistant exactly once, with a command of that
\* mention, wherever the mention stands in the comment; any other event or
\* comment invokes nothing and is answered with success.
C22_MentionInvokesOnce ==
    hpc = "done" =>
        LET created == hookRequest.event = "issue_comment" /\ hookRequest.action = "created"
            comment == hookRequest.comment
        IN  /\ (created /\ CommandOnSameLine(comment)) =>
                  /\ Len(invocations) = 1
                  /\ invocations[1] \in StarscreamCommands(comment)
            /\ ~(created /\ StarscreamCommands(comment) # {}) =>
                  /\ invocations = <<>>
                  /\ hookResponse = 200

\* C22 restricted to comments whose first mention is the assistant's.
C22_FirstMentionInvokesOnce ==
    hpc = "done" =>
        LET created == hookRequest.event = "issue_comment" /\ hookRequest.action = "created"
            comment == hookRequest.comment
            mentions == {k \in DOMAIN comment : IsMention(comment[k])}
        IN  /\ (created /\ CommandOnSameLine(comment) /\ comment[Least(mentions)] = "@starscream") =>
                  /\ Len(invocations) = 1
                  /\ invocations[1] \in StarscreamCommands(comment)
            /\ ~(created /\ StarscreamCommands(comment) # {}) =>
                  /\ invocations = <<>>
                  /\ hookResponse = 200

\* ------------------------------------- the auth middleware (middleware/auth.ts)

\* Length of 'sha256=' + the hex digest of a SHA-256 HMAC: 7 + 64 characters.
SignatureChars == 71

AuthSecrets == {"s1", "s2"}
AuthPaths == {"/", "/health", "/webhook", "/update-codebase"}
AuthBodies == {"{}", "{\"action\":\"created\"}", "not json"}

\* JSON.parse(body) returns
ParsesAsJson(body) == body # "not json"

\* A header value is its text, its length as a string and its length in
\* UTF-8 bytes.  expectedSignature: the HMAC is taken as collision free, so
\* the digest is modelled by the pair of key and message.
expectedSignature(githubSecret, body) ==
    [text |-> <<"sha256=", githubSecret, body>>, chars |-> SignatureChars, bytes |-> SignatureChars]

\* No x-hub-signature-256 header.
NoSignature == [text |-> <<>>, chars |-> 0, bytes |-> 0]

\* The signature headers a request may carry: none, a signature of any body
\* under any secret, 71 ASCII characters that are no signature, a shorter
\* value, and 71 characters of which one is not ASCII (one byte more).
AuthSignatures ==
    {NoSignature}
    \cup {expectedSignature(k, b) : k \in AuthSecrets, b \in AuthBodies}
    \cup {[text |-> <<"sha256=", "0000">>, chars |-> SignatureChars, bytes |-> SignatureChars],
          [text |-> <<"sha256=", "00">>, chars |-> SignatureChars - 1, bytes |-> SignatureChars - 1],
          [text |-> <<"sha256=", "000~">>, chars |-> SignatureChars, bytes |-> SignatureChars + 1]}

isPublicRoute(path) == path = "/" \/ path = "/health"

\* handleWebhookAuth: "ok", "fail", or "throw" when timingSafeEqual is given
\* buffers of different byte lengths (RangeError).
handleWebhookAuth(githubSecret, signature, body) ==
    IF signature = NoSignature THEN "fail"
    ELSE IF signature.chars # expectedSignature(githubSecret, body).chars THEN "fail"
    ELSE IF signature.bytes # expectedSignature(githubSecret, body).bytes THEN "throw"
    ELSE IF signature.text # expectedSignature(githubSecret, body).text THEN "fail"
    ELSE IF ParsesAsJson(body) THEN "ok"
    ELSE "fail"

\* githubAuth: "next" (the handler runs), "401", or "throw".
githubAuth(env, req) ==
    IF env.isDev \/ env.secret = "" THEN "next"
    ELSE IF isPublicRoute(req.path) THEN "next"
    ELSE IF req.path = "/webhook"
         THEN LET authResult == handleWebhookAuth(env.secret, req.signature, req.body)
              IN  IF authResult = "ok" THEN "next"
                  ELSE IF authResult = "fail" THEN "401"
                  ELSE "throw"
    ELSE IF req.secretHeader # env.secret THEN "401"
    ELSE "next"

InitAuth ==
    /\ authEnv \in [secret : {""} \cup {"s1"}, isDev : BOOLEAN]
    /\ authRequest \in [path : AuthPaths, signature : AuthSignatures,
                        secretHeader : {""} \cup AuthSecrets, body : AuthBodies]
    /\ authResponse = 0 /\ handlerRan = FALSE
    /\ authpc = "request"
    /\ EngineOff /\ StoreOff /\ HookOff /\ AsstOff /\ SizeOff

\* The middleware calls next(): the route's handler runs and answers.
AuthNext ==
    /\ authpc = "request"
    /\ githubAuth(authEnv, authRequest) = "next"
    /\ handlerRan' = TRUE
    /\ authResponse' = 200
    /\ authpc' = "done"
    /\ UNCHANGED <<authEnv, authRequest, engineVars, storeVars, hookVars, asstVars, sizeVars>>

\* The middleware answers 401 itself.
AuthReject ==
    /\ authpc = "request"
    /\ githubAuth(authEnv, authRequest) = "401"
    /\ authResponse' = 401
    /\ authpc' = "done"
    /\ UNCHANGED <<authEnv, authRequest, handlerRan, engineVars, storeVars, hookVars, asstVars, sizeVars>>

\* The middleware throws: the framework answers 500.
AuthThrow ==
    /\ authpc = "request"
    /\ githubAuth(authEnv, authRequest) = "throw"
    /\ authResponse' = 500
    /\ authpc' = "done"
    /\ UNCHANGED <<authEnv, authRequest, handlerRan, engineVars, storeVars, hookVars, asstVars, sizeVars>>

NextAuth ==
    \/ AuthNext
    \/ AuthReject
    \/ AuthThrow

SpecAuth == InitAuth /\ [][NextAuth]_vars

\* ----------------------------------------------- claims: the auth middleware

\* The request is authenticated for its route.
Authenticated ==
    IF authRequest.path = "/webhook"
    THEN /\ authRequest.signature = expectedSignature(authEnv.secret, authRequest.body)
         /\ ParsesAsJson(authRequest.body)
    ELSE authRequest.secretHeader = authEnv.secret

\* The secret is set, the service is not in development mode and the route is
\* not public.
Protected ==
    /\ authEnv.secret # "" /\ ~authEnv.isDev
    /\ ~isPublicRoute(authRequest.path)

\* C24: on a protected route the handler runs only for an authenticated
\* request, and a request that is not authenticated is answered 401 without
\* the handler running.
C24_ProtectedRoutesAuthenticate ==
    (authpc = "done" /\ Protected) =>
        /\ handlerRan => Authenticated
        /\ ~Authenticated => (authResponse = 401 /\ ~handlerRan)

\* C24 without the status code: on a protected route the handler runs only
\* for an authenticated request.
C24_HandlerOnlyIfAuthenticated ==
    (authpc = "done" /\ Protected) => (handlerRan => Authenticated)

\* ------------------------------- the assistant service (lib/Assistant.ts)

\* The responses generateStructuredAssistantResponse may return: parsed JSON
\* with one of the schema's actions, with another action, or without one,
\* and plain text.
AssistantActions == {"create_pr", "comment_only", "needs_info", "error", "other", ""}
AssistantResponses ==
    {[type |-> "structured", action |-> a] : a \in AssistantActions}
    \cup {[type |-> "text", action |-> ""]}

\* One call of the GitHub API and whether it was answered with success
\* (the client throws when it was not).
GitHubCall(name, ok) == [call |-> name, ok |-> ok]

\* Mutant: an unknown action is handled as a pull request.
handleResponseMutant(response) ==
    IF response.type = "structured" /\ response.action # ""
    THEN CASE response.action = "create_pr" -> "createPRResponse"
           [] response.action = "comment_only" -> "createCommentResponse"
           [] response.action = "needs_info" -> "requestMoreInfo"
           [] response.action = "error" -> "createErrorResponse"
           [] OTHER -> "createPRResponse"
    ELSE "createFallbackResponse"

\* handleResponse: the method the response is handed to.
handleResponse(response) ==
    IF response.type = "structured" /\ response.action # ""
    THEN CASE response.action = "create_pr" -> "createPRResponse"
           [] response.action = "comment_only" -> "createCommentResponse"
           [] response.action = "needs_info" -> "requestMoreInfo"
           [] response.action = "error" -> "createErrorResponse"
           [] OTHER -> "createCommentResponse"
    ELSE "createFallbackResponse"

\* createPRResponse: createPullRequest (getDefaultBranch, then POST pulls),
\* then the comment about the pull request; the first failure throws.
createPRResponse ==
    {[calls |-> <<GitHubCall("getDefaultBranch", FALSE)>>, threw |-> TRUE],
     [calls |-> <<GitHubCall("getDefaultBranch", TRUE),
                  GitHubCall("createPullRequest", FALSE)>>, threw |-> TRUE],
     [calls |-> <<GitHubCall("getDefaultBranch", TRUE),
                  GitHubCall("createPullRequest", TRUE),
                  GitHubCall("replyToIssue:response", FALSE)>>, threw |-> TRUE],
     [calls |-> <<GitHubCall("getDefaultBranch", TRUE),
                  GitHubCall("createPullRequest", TRUE),
                  GitHubCall("replyToIssue:response", TRUE)>>, threw |-> FALSE]}

\* createCommentResponse: one comment; a failure throws.
createCommentResponse ==
    {[calls |-> <<GitHubCall("replyToIssue:response", ok)>>, threw |-> ~ok] : ok \in BOOLEAN}

\* requestMoreInfo: one comment; building the message throws when questions
\* is not a list, and a failure of the call throws.
requestMoreInfo ==
    {[calls |-> <<>>, threw |-> TRUE]}
    \cup {[calls |-> <<GitHubCall("replyToIssue:response", ok)>>, threw |-> ~ok] : ok \in BOOLEAN}

\* createErrorResponse and createFallbackResponse: one comment inside a try
\* of their own; a failure is logged.
createErrorResponse ==
    {[calls |-> <<GitHubCall("replyToIssue:response", ok)>>, threw |-> FALSE] : ok \in BOOLEAN}
createFallbackResponse ==
    {[calls |-> <<GitHubCall("replyToIssue:response", ok)>>, threw |-> FALSE] : ok \in BOOLEAN}

InitAsst ==
    /\ webhookData \in [isPullRequest : BOOLEAN]
    /\ llmResponse \in AssistantResponses
    /\ githubCalls = <<>>
    /\ asstpc = "start"
    /\ EngineOff /\ StoreOff /\ HookOff /\ AuthOff /\ SizeOff

\* replyToIssue(..., `Processing: "${command}"`)
Acknowledge ==
    /\ asstpc = "start"
    /\ \E ok \in BOOLEAN :
          /\ githubCalls' = Append(githubCalls, GitHubCall("replyToIssue:Processing", ok))
          /\ asstpc' = IF ok THEN "context" ELSE "catch"
    /\ UNCHANGED <<webhookData, llmResponse, engineVars, storeVars, hookVars, authVars, sizeVars>>

\* buildContext: fetchPRFiles when the issue is a pull request, then the
\* collection is initialised and queried (either may throw).
BuildContext ==
    /\ asstpc = "context"
    /\ \E fetched, queried \in BOOLEAN :
          /\ githubCalls' = IF webhookData.isPullRequest
                            THEN Append(githubCalls, GitHubCall("fetchPRFiles", fetched))
                            ELSE githubCalls
          /\ asstpc' = IF (webhookData.isPullRequest /\ ~fetched) \/ ~queried
                       THEN "catch" ELSE "generate"
    /\ UNCHANGED <<webhookData, llmResponse, engineVars, storeVars, hookVars, authVars, sizeVars>>

\* generateStructuredAssistantResponse returns llmResponse or throws.
Generate ==
    /\ asstpc = "generate"
    /\ \E ok \in BOOLEAN : asstpc' = IF ok THEN "handle" ELSE "catch"
    /\ UNCHANGED <<webhookData, llmResponse, githubCalls, engineVars, storeVars, hookVars, authVars, sizeVars>>

\* The calls of one run of a response method are made; a throw goes to the
\* catch of processCommand.
Respond(runs) ==
    /\ \E run \in runs :
          /\ githubCalls' = githubCalls \o run.calls
          /\ asstpc' = IF run.threw THEN "catch" ELSE "done"
    /\ UNCHANGED <<webhookData, llmResponse, engineVars, storeVars, hookVars, authVars, sizeVars>>

CreatePRResponse ==
    /\ asstpc = "handle"
    /\ handleResponse(llmResponse) = "createPRResponse"
    /\ Respond(createPRResponse)

CreateCommentResponse ==
    /\ asstpc = "handle"
    /\ handleResponse(llmResponse) = "createCommentResponse"
    /\ Respond(createCommentResponse)

RequestMoreInfo ==
    /\ asstpc = "handle"
    /\ handleResponse(llmResponse) = "requestMoreInfo"
    /\ Respond(requestMoreInfo)

CreateErrorResponse ==
    /\ asstpc = "handle"
    /\ handleResponse(llmResponse) = "createErrorResponse"
    /\ Respond(createErrorResponse)

CreateFallbackResponse ==
    /\ asstpc = "handle"
    /\ handleResponse(llmResponse) = "createFallbackResponse"
    /\ Respond(createFallbackResponse)

\* The catch of processCommand: replyToIssue(..., `Failed to process: ...`),
\* outside any try.
ReplyFailed ==
    /\ asstpc = "catch"
    /\ \E ok \in BOOLEAN :
          /\ githubCalls' = Append(githubCalls, GitHubCall("replyToIssue:Failed", ok))
          /\ asstpc' = IF ok THEN "done" ELSE "threw"
    /\ UNCHANGED <<webhookData, llmResponse, engineVars, storeVars, hookVars, authVars, sizeVars>>

NextAsst ==
    \/ Acknowledge
    \/ BuildContext
    \/ Generate
    \/ CreatePRResponse
    \/ CreateCommentResponse
    \/ RequestMoreInfo
    \/ CreateErrorResponse
    \/ CreateFallbackResponse
    \/ ReplyFailed

SpecAsst == InitAsst /\ [][NextAsst]_vars

\* --------------------------------------------- claims: the assistant service

\* The outcome comments that were posted.
PostedOutcomes ==
    {k \in DOMAIN githubCalls :
        /\ githubCalls[k].call \in {"replyToIssue:response", "replyToIssue:Failed"}
        /\ githubCalls[k].ok}

\* C25: in every processCommand call the Processing acknowledgement is the
\* first GitHub call and is sent once; at most one outcome comment (the
\* response comment or the Failed to process comment) is posted; and a pull
\* request is requested only when the response is structured with the
\* action create_pr.
C25_AckFirstOneOutcome ==
    /\ githubCalls # <<>> => githubCalls[1].call = "replyToIssue:Processing"
    /\ \A k \in DOMAIN githubCalls :
          /\ githubCalls[k].call = "replyToIssue:Processing" => k = 1
          /\ githubCalls[k].call = "createPullRequest" =>
                (llmResponse.type = "structured" /\ llmResponse.action = "create_pr")
    /\ Cardinality(PostedOutcomes) <= 1

\* A call that created the pull request, failed to comment on it and then
\* posted the Failed to process comment.
C25_Witness ==
    /\ asstpc = "done"
    /\ \E k \in DOMAIN githubCalls : githubCalls[k] = GitHubCall("createPullRequest", TRUE)
    /\ githubCalls[Len(githubCalls)] = GitHubCall("replyToIssue:Failed", TRUE)
    /\ Cardinality(PostedOutcomes) = 1

=============================================================================
